---- MODULE Spec2Model ----
(***************************************************************************)
(* Statistics aggregation and reporting of mimalloc (src/src/stats.c).     *)
(*                                                                         *)
(* The model follows the C code statement by statement where another       *)
(* thread can observe the difference: every mi_atomic_* call and every     *)
(* plain store to a counter field is one step of the calling thread.       *)
(* An mi_stats_t block is reduced to two mi_stat_count_t counters          *)
(* (reserved, normal) and one mi_stat_counter_t counter (normal_count);    *)
(* the code treats all counters of a block uniformly (mi_stats_add).       *)
(***************************************************************************)
EXTENDS Integers, Sequences, FiniteSets, TLC

\* ------------------------------------------------------------------ bounds
CONCURRENT_THREADS_COUNT == 2
MaxUpdates == 2
MaxCalls == 2
MaxAmount == 1
MaxClock == 2
RenderLines == 2
MaxRendered == 1024
WordBits == 24
MaxCoerced == 4
MaxAllocs == 2

\* ------------------------------------------------------------------ blocks
\* &_mi_stats_main
Main == 0
\* thread t owns heap t, whose tld->stats is block t; thread 1 is the main thread
Threads == 1..CONCURRENT_THREADS_COUNT
MainThread == 1
Blocks == {Main} \cup Threads
Amounts == 0..MaxAmount

\* the mi_stat_count_t members of mi_stats_t, in the order mi_stats_add visits them
SizeNames == <<"reserved", "normal">>
\* the mi_stat_counter_t members of mi_stats_t
FlowNames == <<"normal_count">>

SetOf(seq) == {seq[i] : i \in 1..Len(seq)}

ZeroCount == [allocated |-> 0, freed |-> 0, peak |-> 0, current |-> 0]
ZeroCounter == [total |-> 0, count |-> 0]
\* memset(stats, 0, sizeof(mi_stats_t)) and _mi_stats_get_empty_stats()
ZeroStats == [c \in SetOf(SizeNames) \cup SetOf(FlowNames) |->
                 IF c \in SetOf(SizeNames) THEN ZeroCount ELSE ZeroCounter]

mi_is_in_main(b) == b = Main

\* mi_stats_get_default(): the calling thread's heap->tld->stats
mi_stats_get_default(t) == t

Max(a, b) == IF a > b THEN a ELSE b

VARIABLES
  stats,             \* stats[b][c]: the counters of block b
  pc,                \* pc[t]: where thread t stands in its current call
  loc,               \* loc[t]: arguments and locals of thread t's current call
  snap,              \* snap[t]: merged_stats of mi_stats_merge_all_heaps_stats
  heap_queue,        \* the live heaps, from _mi_heap_main_get() along next_thread_heap
  lock,              \* holder of the heap queue lock, 0 when free
  wrapper,           \* arg_cb_wrapper_t objects, by storage slot
  cb_last,           \* cb_last[t]: what the last sink call made for thread t received
  mi_process_start,
  clock,             \* _mi_clock_now()
  ops_left,          \* the counter updates and the other calls the threads may still start
  hist,              \* history of the run, read only by the properties
  file,              \* file[t]: what mi_malloc_info has written to the FILE of thread t
  sink,              \* sink[t]: the messages the sink of thread t's print call received
  result,            \* result[t]: return value and errno of thread t's last mi_malloc_info
  minfo,             \* minfo[t]: the mallinfo_t thread t passes to mi_stats_mallinfo
  probe              \* a counter and its report, for the rendering functions alone

vars == <<stats, pc, loc, snap, heap_queue, lock, wrapper, cb_last,
          mi_process_start, clock, ops_left, hist, file, sink, result, minfo, probe>>


\* ------------------------------------------------------------- initial state
IdleLoc == [op |-> "none", blk |-> Main, ctr |-> "none", amt |-> 0, cur |-> 0,
            k |-> 0, hp |-> 0, cb |-> 0, opq |-> 0, n |-> 0]

NoSinkCall == [n |-> 0, cb |-> 0, arg |-> 0, passed_cb |-> 0, passed |-> 0]

ZeroTotals == [c \in SetOf(SizeNames) |-> 0]

\* what the updates of the class normal have added to one block
ZeroTally == [allocated |-> 0, freed |-> 0]

HistInit == [inc |-> ZeroTotals, dec |-> ZeroTotals, fl_n |-> 0, fl_sum |-> 0,
             merged |-> ZeroStats,
             mergers |-> {},
             undisturbed |-> {},
             quiet |-> [by |-> 0, n |-> 0, dirty |-> FALSE],
             clean |-> [t \in Threads |-> FALSE],
             after_reset |-> [t \in Threads |-> 0],
             reset_at |-> -1,
             watch |-> FALSE,
             tally |-> FALSE,
             begun |-> [b \in Blocks |-> ZeroTally],
             ended |-> [b \in Blocks |-> ZeroTally],
             high |-> [b \in Blocks |-> 0],
             floor |-> [t \in Threads |-> 0],
             seen |-> [b \in Blocks |-> [n |-> 0, ctr |-> "none", amount |-> 0,
                                         counter |-> ZeroCount]]]

\* nothing was sent to the sink
NoText == [to |-> "none", text |-> <<>>]

\* mi_malloc_info has not returned
NoResult == [returned |-> FALSE, ret |-> 0, errno |-> "unchanged", options |-> 0]

\* mallinfo_t, as far as mi_stats_mallinfo fills it
NoMinfo == [filled |-> FALSE, reserved |-> 0, mmap_calls |-> 0, allocated |-> 0, freed |-> 0]

\* print_mode_t
TABLE == "TABLE"
XML == "XML"

\* no rendering function is being looked at alone
IdleProbe == [op |-> "none", n |-> 0, unit |-> 1, print_mode |-> TABLE, buf |-> "",
              done |-> FALSE]

\* the state of the program after its construction
InitState ==
  /\ stats = [b \in Blocks |-> ZeroStats]
  /\ pc = [t \in Threads |-> "idle"]
  /\ loc = [t \in Threads |-> IdleLoc]
  /\ snap = [t \in Threads |-> ZeroStats]
  /\ heap_queue = [i \in 1..CONCURRENT_THREADS_COUNT |-> i]
  /\ lock = 0
  /\ wrapper = [s \in {0} \cup Threads |-> [write_cb |-> 0, arg |-> 0]]
  /\ cb_last = [t \in Threads |-> NoSinkCall]
  /\ mi_process_start = 0
  /\ clock = 0
  /\ file = [t \in Threads |-> <<>>]
  /\ sink = [t \in Threads |-> NoText]
  /\ result = [t \in Threads |-> NoResult]
  /\ minfo = [t \in Threads |-> NoMinfo]

\* the program after its construction, with the calls a behaviour may make
InitProgram ==
  /\ InitState
  /\ ops_left = [update |-> MaxUpdates, call |-> MaxCalls]

Init ==
  /\ InitProgram
  /\ hist = HistInit
  /\ probe = IdleProbe

\* a store to a counter field: it ends every "nothing was updated since" period
Touched(h) == [h EXCEPT !.quiet = [by |-> 0, n |-> 0, dirty |-> FALSE],
                        !.undisturbed = {},
                        !.clean = [t \in Threads |-> FALSE],
                        !.after_reset = [t \in Threads |-> 0]]

\* the call returns to the caller
Return(t) ==
  /\ pc' = [pc EXCEPT ![t] = "idle"]
  /\ loc' = [loc EXCEPT ![t] = IdleLoc]

\* kind: "update" for a counter update, "call" for any other entry point
Begin(t, kind) ==
  /\ pc[t] = "idle"
  /\ ops_left[kind] > 0
  /\ ops_left' = [ops_left EXCEPT ![kind] = @ - 1]

\* ------------------------------------------------------------- update path
\* the direct updates of the GlobalBlock so far, with this one
Recorded(h, b, c, amount) ==
  IF ~mi_is_in_main(b) THEN h
  ELSE IF amount > 0 THEN [h EXCEPT !.inc[c] = @ + amount]
  ELSE [h EXCEPT !.dec[c] = @ - amount]

\* where the history watches the update calls: the call last entered on each block,
\* with the counter as it was then
Watched(h, b, c, amount) ==
  IF h.watch
    THEN [h EXCEPT !.seen[b] = [n |-> 1, ctr |-> c, amount |-> amount,
                                counter |-> stats[b][c]]]
    ELSE h

TallyAfter(tl, amount) ==
  IF amount > 0 THEN [tl EXCEPT !.allocated = @ + amount]
  ELSE [tl EXCEPT !.freed = @ - amount]

\* where the history tallies the updates of the class normal: the amounts of the calls
\* entered on each block, and the highest current of the block since it was zeroed
Begun(h, b, c, amount) ==
  IF h.tally /\ c = "normal"
    THEN [h EXCEPT !.begun[b] = TallyAfter(@, amount),
                   !.high[b] = Max(@, stats[b][c].current + amount)]
    ELSE h

\* the amounts of the calls that have returned
Ended(h, b, c, amount) ==
  IF h.tally /\ c = "normal" THEN [h EXCEPT !.ended[b] = TallyAfter(@, amount)] ELSE h

\* what the calls that have returned, and the calls entered, have allocated in the
\* class normal on all blocks
EndedAllocated == hist.ended[Main].allocated + hist.ended[1].allocated + hist.ended[2].allocated
BegunAllocated == hist.begun[Main].allocated + hist.begun[1].allocated + hist.begun[2].allocated

\* the block was zeroed
Zeroed(h, b) == IF h.tally THEN [h EXCEPT !.high[b] = 0] ELSE h

\* the test of mi_stat_update gone: no amount returns early
IsNoOp_Never(amount) == FALSE

\* if (amount == 0) return;
IsNoOp(amount) == amount = 0

\* mi_stat_update(stat, amount) with the signed amount: if (amount == 0) return; then
\* current = mi_atomic_addi64_relaxed(&stat->current, amount)  |  stat->current += amount
mi_stat_update(t, b, c, amount) ==
  /\ Begin(t, "update")
  /\ IF IsNoOp(amount)
       THEN /\ hist' = Ended(Begun(Watched(hist, b, c, amount), b, c, amount), b, c, amount)
            /\ UNCHANGED <<stats, pc, loc>>
       ELSE /\ stats' = [stats EXCEPT ![b][c].current = @ + amount]
            /\ pc' = [pc EXCEPT ![t] = "upd_peak"]
            /\ loc' = [loc EXCEPT ![t] =
                         [IdleLoc EXCEPT !.op = "update", !.blk = b, !.ctr = c, !.amt = amount,
                            !.cur = IF mi_is_in_main(b) THEN stats[b][c].current ELSE 0]]
            /\ hist' = Touched(Recorded(Begun(Watched(hist, b, c, amount), b, c, amount),
                                         b, c, amount))
  /\ UNCHANGED <<snap, heap_queue, lock, wrapper, cb_last, mi_process_start, clock>>
  /\ UNCHANGED <<file, sink, result, minfo, probe>>

\* size_t and int64_t have WordBits bits here, 64 in the code
SIZE_MAX == 2^WordBits - 1
INT64_MAX == 2^(WordBits - 1) - 1

\* (int64_t)amount for a size_t amount
ToInt64(amount) == IF amount > INT64_MAX THEN amount - 2^WordBits ELSE amount

\* _mi_stat_increase: mi_stat_update(stat, (int64_t)amount)
mi_stat_increase(t, b, c, amount) == mi_stat_update(t, b, c, ToInt64(amount))

\* _mi_stat_decrease: mi_stat_update(stat, -((int64_t)amount)); the amount 2^(WordBits-1),
\* whose negation overflows, is never passed here
mi_stat_decrease(t, b, c, amount) == mi_stat_update(t, b, c, -ToInt64(amount))

\* mutant: on a heap's own block the peak is set to the current value
PeakAfter_Current(b, counter, fetched, amount) ==
  IF mi_is_in_main(b) THEN Max(counter.peak, fetched + amount) ELSE counter.current

\* mi_atomic_maxi64_relaxed(&stat->peak, current + amount)
\*   |  if (stat->current > stat->peak) stat->peak = stat->current
PeakAfter(b, counter, fetched, amount) ==
  IF mi_is_in_main(b) THEN Max(counter.peak, fetched + amount)
  ELSE IF counter.current > counter.peak THEN counter.current ELSE counter.peak

mi_stat_update_peak(t) ==
  /\ pc[t] = "upd_peak"
  /\ LET b == loc[t].blk
         c == loc[t].ctr
     IN stats' = [stats EXCEPT ![b][c].peak = PeakAfter(b, stats[b][c], loc[t].cur, loc[t].amt)]
  /\ pc' = [pc EXCEPT ![t] = "upd_total"]
  /\ hist' = Touched(hist)
  /\ UNCHANGED <<loc, snap, heap_queue, lock, wrapper, cb_last, mi_process_start, clock, ops_left>>
  /\ UNCHANGED <<file, sink, result, minfo, probe>>

\* mutant: the sign of the amount is not looked at
TotalAfter_Unsigned(counter, amount) == [counter EXCEPT !.allocated = @ + amount]

\* if (amount > 0) allocated += amount; else freed += -amount
TotalAfter(counter, amount) ==
  IF amount > 0 THEN [counter EXCEPT !.allocated = @ + amount]
  ELSE [counter EXCEPT !.freed = @ + (-amount)]

mi_stat_update_total(t) ==
  /\ pc[t] = "upd_total"
  /\ LET b == loc[t].blk
         c == loc[t].ctr
     IN stats' = [stats EXCEPT ![b][c] = TotalAfter(stats[b][c], loc[t].amt)]
  /\ Return(t)
  /\ hist' = Touched(Ended(hist, loc[t].blk, loc[t].ctr, loc[t].amt))
  /\ UNCHANGED <<snap, heap_queue, lock, wrapper, cb_last, mi_process_start, clock, ops_left>>
  /\ UNCHANGED <<file, sink, result, minfo, probe>>

\* _mi_stat_counter_increase(stat, amount):
\* mi_atomic_addi64_relaxed(&stat->count, 1)  |  stat->count++
mi_stat_counter_increase(t, b, c, amount) ==
  /\ Begin(t, "update")
  /\ stats' = [stats EXCEPT ![b][c].count = @ + 1]
  /\ pc' = [pc EXCEPT ![t] = "cnt_total"]
  /\ loc' = [loc EXCEPT ![t] = [IdleLoc EXCEPT !.op = "counter", !.blk = b,
                                               !.ctr = c, !.amt = amount]]
  /\ hist' = Touched(IF mi_is_in_main(b)
                       THEN [hist EXCEPT !.fl_n = @ + 1, !.fl_sum = @ + amount]
                       ELSE hist)
  /\ UNCHANGED <<snap, heap_queue, lock, wrapper, cb_last, mi_process_start, clock>>
  /\ UNCHANGED <<file, sink, result, minfo, probe>>

\* mi_atomic_addi64_relaxed(&stat->total, (int64_t)amount)  |  stat->total += amount
mi_stat_counter_total(t) ==
  /\ pc[t] = "cnt_total"
  /\ stats' = [stats EXCEPT ![loc[t].blk][loc[t].ctr].total = @ + loc[t].amt]
  /\ Return(t)
  /\ hist' = Touched(hist)
  /\ UNCHANGED <<snap, heap_queue, lock, wrapper, cb_last, mi_process_start, clock, ops_left>>
  /\ UNCHANGED <<file, sink, result, minfo, probe>>

\* mutant: the update path waits for the heap queue lock
UpdateStep_Locked(t) ==
  /\ lock = 0
  /\ (mi_stat_update_peak(t) \/ mi_stat_update_total(t) \/ mi_stat_counter_total(t))

\* the steps of a counter update in flight; none of them takes a lock
UpdateStep(t) ==
  \/ mi_stat_update_peak(t)
  \/ mi_stat_update_total(t)
  \/ mi_stat_counter_total(t)

\* ------------------------------------------------------------- merge engine
\* the stores of mi_stat_add on one mi_stat_count_t, after its early exit ("chk")
SizeSteps(c) == <<[ctr |-> c, f |-> "chk"], [ctr |-> c, f |-> "allocated"],
                  [ctr |-> c, f |-> "current"], [ctr |-> c, f |-> "freed"],
                  [ctr |-> c, f |-> "peak"]>>

\* the stores of mi_stat_counter_add on one mi_stat_counter_t
FlowSteps(c) == <<[ctr |-> c, f |-> "total"], [ctr |-> c, f |-> "count"]>>

RECURSIVE SizeStepsFrom(_)
SizeStepsFrom(i) ==
  IF i > Len(SizeNames) THEN <<>> ELSE SizeSteps(SizeNames[i]) \o SizeStepsFrom(i + 1)

RECURSIVE FlowStepsFrom(_)
FlowStepsFrom(i) ==
  IF i > Len(FlowNames) THEN <<>> ELSE FlowSteps(FlowNames[i]) \o FlowStepsFrom(i + 1)

\* mi_stats_add(stats, src): its calls of mi_stat_add and mi_stat_counter_add, in order
AddSteps == SizeStepsFrom(1) \o FlowStepsFrom(1)

\* mutant: a counter with nothing allocated is skipped, whatever was freed
mi_stat_add_skips_unallocated(srcCounter) == srcCounter.allocated = 0

\* mutant: a counter with nothing freed is skipped, whatever was allocated
mi_stat_add_skips_unfreed(srcCounter) == srcCounter.freed = 0

\* mi_stat_add: if (src->allocated==0 && src->freed==0) return;
mi_stat_add_skips(srcCounter) == srcCounter.allocated = 0 /\ srcCounter.freed = 0

\* mutant: the field of the source is stored, not added
mi_stat_add_field_Store(dstValue, srcValue, unit) == srcValue * unit

\* mi_atomic_addi64_relaxed(&stat->f, src->f * unit)
mi_stat_add_field(dstValue, srcValue, unit) == dstValue + srcValue * unit

\* step k of mi_stats_add(dst, src) with dst != src: the block dst after it, and the next step
AddStep(dst, src, k) ==
  LET s == AddSteps[k]
  IN IF s.f = "chk"
       THEN [dst |-> dst,
             k |-> IF mi_stat_add_skips(src[s.ctr]) THEN k + Len(SizeSteps(s.ctr)) ELSE k + 1]
       ELSE [dst |-> [dst EXCEPT ![s.ctr][s.f] = mi_stat_add_field(@, src[s.ctr][s.f], 1)],
             k |-> k + 1]

BlockSum(a, b) == [c \in DOMAIN a |-> [f \in DOMAIN a[c] |-> a[c][f] + b[c][f]]]

TouchedIf(changed) == IF changed THEN Touched(hist) ELSE hist

\* mi_stats_merge_from(stats): if (stats != &_mi_stats_main), then the first step of
\* mi_stats_add(&_mi_stats_main, stats)
mi_stats_merge_from(t, src, entry) ==
  /\ Begin(t, "call")
  /\ IF src # Main
       THEN LET r == AddStep(stats[Main], stats[src], 1)
            IN /\ stats' = [stats EXCEPT ![Main] = r.dst]
               /\ pc' = [pc EXCEPT ![t] = "merge_add"]
               /\ loc' = [loc EXCEPT ![t] = [IdleLoc EXCEPT !.op = entry, !.blk = src, !.k = r.k]]
               /\ hist' = [TouchedIf(r.dst # stats[Main])
                             EXCEPT !.merged = BlockSum(@, stats[src]),
                                    !.mergers = IF stats[src] # ZeroStats THEN @ \cup {t} ELSE @]
       ELSE UNCHANGED <<stats, pc, loc, hist>>
  /\ UNCHANGED <<snap, heap_queue, lock, wrapper, cb_last, mi_process_start, clock>>
  /\ UNCHANGED <<file, sink, result, minfo, probe>>

\* mi_stats_merge()
mi_stats_merge(t) == mi_stats_merge_from(t, mi_stats_get_default(t), "merge")

\* _mi_stats_done(stats), called from mi_thread_done of a thread that is not the main thread
mi_stats_done(t) ==
  /\ t # MainThread
  /\ mi_stats_merge_from(t, mi_stats_get_default(t), "done")

\* mi_stats_add(&_mi_stats_main, stats): one step of it
MergeAddStep(t) ==
  /\ pc[t] = "merge_add"
  /\ LET r == AddStep(stats[Main], stats[loc[t].blk], loc[t].k)
     IN /\ stats' = [stats EXCEPT ![Main] = r.dst]
        /\ loc' = [loc EXCEPT ![t].k = r.k]
        /\ pc' = [pc EXCEPT ![t] = IF r.k > Len(AddSteps) THEN "merge_zero" ELSE "merge_add"]
        /\ hist' = TouchedIf(r.dst # stats[Main])
  /\ UNCHANGED <<snap, heap_queue, lock, wrapper, cb_last, mi_process_start, clock, ops_left>>
  /\ UNCHANGED <<file, sink, result, minfo, probe>>

\* mutant: the source block is left as it is
SrcAfterMerge_Kept(st, src) == st

\* mutant: the blocks of all heaps are zeroed
SrcAfterMerge_AllHeaps(st, src) == [b \in DOMAIN st |-> IF b = Main THEN st[b] ELSE ZeroStats]

\* memset(stats, 0, sizeof(mi_stats_t))
SrcAfterMerge(st, src) == [st EXCEPT ![src] = ZeroStats]

\* memset(stats, 0, sizeof(mi_stats_t)) of mi_stats_merge_from
MergeZeroStep(t) ==
  /\ pc[t] = "merge_zero"
  /\ stats' = SrcAfterMerge(stats, loc[t].blk)
  /\ IF loc[t].op = "done"
       THEN /\ pc' = [pc EXCEPT ![t] = "unreg"]
            /\ loc' = [loc EXCEPT ![t] = IdleLoc]
       ELSE IF loc[t].op = "mallinfo"
         THEN /\ pc' = [pc EXCEPT ![t] = "minfo_reserved"]
              /\ loc' = [loc EXCEPT ![t] = [IdleLoc EXCEPT !.op = "mallinfo"]]
         ELSE IF loc[t].op = "print_out"
           THEN /\ pc' = [pc EXCEPT ![t] = "out_render"]
                /\ loc' = [loc EXCEPT ![t] = [IdleLoc EXCEPT !.op = "print_out"]]
           ELSE Return(t)
  /\ hist' = Zeroed(TouchedIf(stats[loc[t].blk] # ZeroStats), loc[t].blk)
  /\ UNCHANGED <<snap, heap_queue, lock, wrapper, cb_last, mi_process_start, clock, ops_left>>
  /\ UNCHANGED <<file, sink, result, minfo, probe>>

\* thread teardown: the heap leaves the live-heap list, under the heap queue lock
HeapUnregister(t) ==
  /\ pc[t] = "unreg"
  /\ lock = 0
  /\ heap_queue' = SelectSeq(heap_queue, LAMBDA h : h # t)
  /\ pc' = [pc EXCEPT ![t] = "exited"]
  /\ UNCHANGED <<stats, loc, snap, lock, wrapper, cb_last, mi_process_start, clock,
                 ops_left, hist>>
  /\ UNCHANGED <<file, sink, result, minfo, probe>>

MergeStep(t) ==
  \/ MergeAddStep(t)
  \/ MergeZeroStep(t)
  \/ HeapUnregister(t)

\* ------------------------------------------------------------- mallinfo
\* the model keeps one mi_stat_counter_t; mi_stats_mallinfo reads it where the program
\* reads mmap_calls
MmapCalls == "normal_count"

\* mutant: the block of the calling thread is not folded into the GlobalBlock
MallinfoFolds_Never(src) == FALSE

\* mi_stats_merge_from(mi_stats_get_default()) merges, the source not being the GlobalBlock
MallinfoFolds(src) == src # Main

\* void mi_stats_mallinfo(mallinfo_t *minfo): if (minfo == NULL) return; then
\* mi_stats_merge_from(mi_stats_get_default())
mi_stats_mallinfo(t, is_null) ==
  IF is_null
    THEN /\ Begin(t, "call")
         /\ UNCHANGED <<stats, pc, loc, snap, heap_queue, lock, wrapper, cb_last,
                        mi_process_start, clock, hist, file, sink, result, minfo, probe>>
    ELSE IF MallinfoFolds(mi_stats_get_default(t))
      THEN mi_stats_merge_from(t, mi_stats_get_default(t), "mallinfo")
      ELSE /\ Begin(t, "call")
           /\ pc' = [pc EXCEPT ![t] = "minfo_reserved"]
           /\ loc' = [loc EXCEPT ![t] = [IdleLoc EXCEPT !.op = "mallinfo"]]
           /\ UNCHANGED <<stats, snap, heap_queue, lock, wrapper, cb_last,
                          mi_process_start, clock, hist, file, sink, result, minfo, probe>>

\* minfo->reserved = _mi_stats_main.reserved.allocated
MallinfoReserved(t) ==
  /\ pc[t] = "minfo_reserved"
  /\ minfo' = [minfo EXCEPT ![t] = [NoMinfo EXCEPT !.reserved = stats[Main]["reserved"].allocated]]
  /\ pc' = [pc EXCEPT ![t] = "minfo_mmap"]
  /\ UNCHANGED <<stats, loc, snap, heap_queue, lock, wrapper, cb_last, mi_process_start,
                 clock, ops_left, hist, file, sink, result, probe>>

\* minfo->mmap_calls = _mi_stats_main.mmap_calls.count; then the early exit of
\* mi_stat_add(&total, &_mi_stats_main.normal, 1) on a total of zeros
MallinfoMmapCalls(t) ==
  /\ pc[t] = "minfo_mmap"
  /\ minfo' = [minfo EXCEPT ![t].mmap_calls = stats[Main][MmapCalls].count]
  /\ pc' = [pc EXCEPT ![t] = "minfo_chk"]
  /\ UNCHANGED <<stats, loc, snap, heap_queue, lock, wrapper, cb_last, mi_process_start,
                 clock, ops_left, hist, file, sink, result, probe>>

\* mi_stat_add: if (src->allocated==0 && src->freed==0) return; the total stays zero
MallinfoCheck(t) ==
  /\ pc[t] = "minfo_chk"
  /\ IF mi_stat_add_skips(stats[Main]["normal"])
       THEN /\ minfo' = [minfo EXCEPT ![t].filled = TRUE]
            /\ Return(t)
       ELSE /\ pc' = [pc EXCEPT ![t] = "minfo_allocated"]
            /\ UNCHANGED <<loc, minfo>>
  /\ UNCHANGED <<stats, snap, heap_queue, lock, wrapper, cb_last, mi_process_start,
                 clock, ops_left, hist, file, sink, result, probe>>

\* mi_atomic_addi64_relaxed(&total.allocated, src->allocated * 1), which
\* minfo->allocated = total.allocated copies
MallinfoAllocated(t) ==
  /\ pc[t] = "minfo_allocated"
  /\ minfo' = [minfo EXCEPT ![t].allocated =
                  mi_stat_add_field(0, stats[Main]["normal"].allocated, 1)]
  /\ pc' = [pc EXCEPT ![t] = "minfo_freed"]
  /\ UNCHANGED <<stats, loc, snap, heap_queue, lock, wrapper, cb_last, mi_process_start,
                 clock, ops_left, hist, file, sink, result, probe>>

\* mi_atomic_addi64_relaxed(&total.freed, src->freed * 1), which minfo->freed =
\* total.freed copies; the function returns
MallinfoFreed(t) ==
  /\ pc[t] = "minfo_freed"
  /\ minfo' = [minfo EXCEPT ![t].freed = mi_stat_add_field(0, stats[Main]["normal"].freed, 1),
                            ![t].filled = TRUE]
  /\ Return(t)
  /\ UNCHANGED <<stats, snap, heap_queue, lock, wrapper, cb_last, mi_process_start,
                 clock, ops_left, hist, file, sink, result, probe>>

MallinfoStep(t) ==
  \/ MallinfoReserved(t)
  \/ MallinfoMmapCalls(t)
  \/ MallinfoCheck(t)
  \/ MallinfoAllocated(t)
  \/ MallinfoFreed(t)

\* ------------------------------------------------------------- reset
ResetPcs == {"reset_main", "reset_clk", "reset_latch"}

UpdatePcs == {"upd_peak", "upd_total", "cnt_total"}
MergePcs == {"merge_add", "merge_zero"}

\* no thread other than t is inside a counter update or a merge; a reset that begins
\* so, and during which no counter is stored to, is undisturbed: the memsets of
\* mi_stats_reset are each one step here, which for an undisturbed reset no thread
\* can tell from a byte-wise memset
NoneElseInFlight(t) == \A u \in Threads \ {t} : pc[u] \notin UpdatePcs \cup MergePcs

\* a memset of a block by mi_stats_reset: a snapshot in progress no longer sees one state
Cleared(h, changed) ==
  [h EXCEPT !.clean = [u \in Threads |-> FALSE],
            !.after_reset = IF changed THEN [u \in Threads |-> 0] ELSE @]

\* mutant: the calling thread's block is left as it is
OwnAfterReset_Kept(st, own) == st

\* if (stats != &_mi_stats_main) { memset(stats, 0, sizeof(mi_stats_t)); }
OwnAfterReset(st, own) == IF own # Main THEN [st EXCEPT ![own] = ZeroStats] ELSE st

\* mi_stats_reset(): stats = mi_stats_get_default(); then the memset of the own block
mi_stats_reset(t) ==
  /\ Begin(t, "call")
  /\ LET own == mi_stats_get_default(t)
     IN /\ stats' = OwnAfterReset(stats, own)
        /\ loc' = [loc EXCEPT ![t] = [IdleLoc EXCEPT !.op = "reset", !.blk = own]]
  /\ pc' = [pc EXCEPT ![t] = "reset_main"]
  /\ hist' = [Zeroed(Cleared(hist, stats' # stats), mi_stats_get_default(t))
                 EXCEPT !.undisturbed = IF NoneElseInFlight(t) THEN @ \cup {t} ELSE @]
  /\ UNCHANGED <<snap, heap_queue, lock, wrapper, cb_last, mi_process_start, clock>>
  /\ UNCHANGED <<file, sink, result, minfo, probe>>

\* mutant: the GlobalBlock is left as it is
MainAfterReset_Kept(st) == st

\* memset(&_mi_stats_main, 0, sizeof(mi_stats_t))
MainAfterReset(st) == [st EXCEPT ![Main] = ZeroStats]

ResetMainStep(t) ==
  /\ pc[t] = "reset_main"
  /\ stats' = MainAfterReset(stats)
  /\ pc' = [pc EXCEPT ![t] = "reset_clk"]
  /\ hist' = [Cleared(hist, stats[Main] # ZeroStats)
                 EXCEPT !.quiet = IF t \notin hist.undisturbed
                                    THEN [by |-> 0, n |-> 0, dirty |-> FALSE]
                                  ELSE IF @.by = t THEN [@ EXCEPT !.n = 2]
                                  ELSE [by |-> t, n |-> 1, dirty |-> stats[Main] # ZeroStats],
                        !.undisturbed = @ \ {t},
                        !.inc = ZeroTotals, !.dec = ZeroTotals,
                        !.fl_n = 0, !.fl_sum = 0, !.merged = ZeroStats,
                        !.mergers = {}]
  /\ UNCHANGED <<loc, snap, heap_queue, lock, wrapper, cb_last, mi_process_start, clock, ops_left>>
  /\ UNCHANGED <<file, sink, result, minfo, probe>>

\* mutant: the origin is taken anew on every reset
LatchNeeded_Always(start) == TRUE

\* if (mi_process_start == 0)
LatchNeeded(start) == start = 0

ResetClockStep(t) ==
  /\ pc[t] = "reset_clk"
  /\ IF LatchNeeded(mi_process_start)
       THEN /\ pc' = [pc EXCEPT ![t] = "reset_latch"]
            /\ loc' = loc
       ELSE Return(t)
  /\ hist' = [hist EXCEPT !.reset_at = clock]
  /\ UNCHANGED <<stats, snap, heap_queue, lock, wrapper, cb_last, mi_process_start, clock, ops_left>>
  /\ UNCHANGED <<file, sink, result, minfo, probe>>

\* mi_process_start = _mi_clock_start(), which returns _mi_clock_now()
ResetLatchStep(t) ==
  /\ pc[t] = "reset_latch"
  /\ mi_process_start' = clock
  /\ Return(t)
  /\ hist' = [hist EXCEPT !.reset_at = clock]
  /\ UNCHANGED <<stats, snap, heap_queue, lock, wrapper, cb_last, clock, ops_left>>
  /\ UNCHANGED <<file, sink, result, minfo, probe>>

ResetStep(t) ==
  \/ ResetMainStep(t)
  \/ ResetClockStep(t)
  \/ ResetLatchStep(t)

\* time passes
Tick ==
  /\ clock < MaxClock
  /\ clock' = clock + 1
  /\ UNCHANGED <<stats, pc, loc, snap, heap_queue, lock, wrapper, cb_last, mi_process_start,
                 ops_left, hist>>
  /\ UNCHANGED <<file, sink, result, minfo, probe>>

\* ------------------------------------------------------------- rendering of amounts
\* mi_printf_amount and the C arithmetic it uses

\* integer division and remainder of C: the quotient is truncated towards zero
CDiv(a, b) == IF a >= 0 THEN a \div b ELSE -((-a) \div b)
CMod(a, b) == a - b * CDiv(a, b)

Abs(a) == IF a < 0 THEN -a ELSE a

\* "%-3s": the string, left-justified in a field of three characters
PadRight3(str) ==
  str \o (CASE Len(str) = 0 -> "   " [] Len(str) = 1 -> "  " [] Len(str) = 2 -> " " [] OTHER -> "")

RECURSIVE trim_right_in_place(_)
\* while (end_exclusive > 0 && s[end_exclusive - 1] == ' ') end_exclusive--;
trim_right_in_place(str) ==
  IF Len(str) > 0 /\ SubSeq(str, Len(str), Len(str)) = " "
    THEN trim_right_in_place(SubSeq(str, 1, Len(str) - 1))
    ELSE str

\* the comparison of mi_printf_amount gone wrong: an amount equal to the base is
\* printed without a magnitude
BelowBase_Inclusive(pos, base) == pos <= base

\* if (pos < base)
BelowBase(pos, base) == pos < base

\* the branch of mi_printf_amount for pos >= base: magnitude K, M or G, the amount in
\* tenths of the divider, "%PRId64.%PRId8 %-3s"
ScaledAmount(n, base, suffix) ==
  LET pos == Abs(n)
      steps == IF pos >= base * base * base THEN 3 ELSE IF pos >= base * base THEN 2 ELSE 1
      divider == IF steps = 3 THEN base * base * base
                 ELSE IF steps = 2 THEN base * base ELSE base
      magnitude == IF steps = 3 THEN "G" ELSE IF steps = 2 THEN "M" ELSE "K"
      tens == CDiv(n, CDiv(divider, 10))
      whole == CDiv(tens, 10)
      frac1 == CMod(tens, 10)
      unitdesc == magnitude \o (IF base = 1024 THEN "i" ELSE "") \o suffix
  IN ToString(whole) \o "." \o ToString(Abs(frac1)) \o " " \o PadRight3(unitdesc)

\* mi_printf_amount(n, unit, out, arg, fmt, print_mode): the string buf handed to fmt
mi_printf_amount(n0, unit, print_mode) ==
  LET suffix == IF unit <= 0 THEN " " ELSE "B"
      base == IF unit = 0 THEN 1000 ELSE 1024
      n == IF unit > 0 THEN n0 * unit ELSE n0
      pos == Abs(n)
      buf == IF BelowBase(pos, base)
               THEN IF n # 1 \/ suffix # "B"
                      THEN ToString(n) \o " " \o PadRight3(IF n = 0 THEN "" ELSE suffix)
                      ELSE ""
               ELSE ScaledAmount(n, base, suffix)
  IN IF print_mode = XML THEN trim_right_in_place(buf) ELSE buf


\* ------------------------------------------------------------- table report
RECURSIVE PadLeft(_, _)
\* "%<width>s": the string, right-aligned in width columns
PadLeft(str, width) == IF Len(str) >= width THEN str ELSE PadLeft(" " \o str, width)

mi_print_amount(n, unit) == PadLeft(mi_printf_amount(n, unit, TABLE), 11)

mi_print_count(n, unit) == IF unit = 1 THEN PadLeft(" ", 11) ELSE mi_print_amount(n, 0)

\* the end of a row of mi_stat_print
AllFreed(stat) == IF stat.allocated > stat.freed THEN "  not all freed!\n" ELSE "  ok\n"

\* one row of the table
mi_stat_print(stat, msg, unit) ==
  PadLeft(msg, 10) \o ":" \o
  (IF unit > 0
     THEN mi_print_amount(stat.peak, unit) \o mi_print_amount(stat.allocated, unit)
          \o mi_print_amount(stat.freed, unit) \o mi_print_amount(stat.current, unit)
          \o mi_print_amount(unit, 1) \o mi_print_count(stat.allocated, unit)
          \o AllFreed(stat)
   ELSE IF unit < 0
     THEN mi_print_amount(stat.peak, -1) \o mi_print_amount(stat.allocated, -1)
          \o mi_print_amount(stat.freed, -1) \o mi_print_amount(stat.current, -1)
          \o (IF unit = -1 THEN PadLeft("", 22)
              ELSE mi_print_amount(-unit, 1) \o mi_print_count(CDiv(stat.allocated, -unit), 0))
          \o AllFreed(stat)
   ELSE mi_print_amount(stat.peak, 1) \o mi_print_amount(stat.allocated, 1)
        \o PadLeft(" ", 11) \o mi_print_amount(stat.current, 1) \o "\n")

mi_print_header ==
  PadLeft("heap stats", 10) \o ": " \o PadLeft("peak   ", 10) \o " " \o PadLeft("total   ", 10)
  \o " " \o PadLeft("freed   ", 10) \o " " \o PadLeft("current   ", 10) \o " "
  \o PadLeft("unit   ", 10) \o " " \o PadLeft("count   ", 10) \o "\n"

\* the unit mi_print_allocations passes for the class normal: the average size of an
\* allocation, negated, or 1 where nothing was counted
AllocationUnit(s) ==
  IF s["normal_count"].count = 0 THEN 1
  ELSE -CDiv(s["normal"].allocated, s["normal_count"].count)

\* mi_stat_count_t total = {0, 0, 0, 0}; mi_stat_add(&total, &stats->normal, 1)
AllocationsTotal(s) ==
  IF mi_stat_add_skips(s["normal"]) THEN ZeroCount
  ELSE [f \in DOMAIN ZeroCount |-> mi_stat_add_field(ZeroCount[f], s["normal"][f], 1)]

\* line i of those _mi_stats_print hands to its line buffer for the counters of the
\* model: mi_print_header, mi_print_allocations in TABLE mode, the row of reserved
TableLine(s, i) ==
  CASE i = 1 -> mi_print_header
    [] i = 2 -> mi_stat_print(s["normal"], "normal", AllocationUnit(s))
    [] i = 3 -> mi_stat_print(AllocationsTotal(s), "total", 1)
    [] i = 4 -> mi_stat_print(s["reserved"], "reserved", 1)
    [] OTHER -> "\n"

\* mutant: without an output function nothing is written
Delivered_CallbackOnly(out, chunk) == IF out = 0 THEN <<>> ELSE <<chunk>>

\* mi_buffered_flush: _mi_fputs(buf->out, buf->arg, NULL, buf->buf) hands the line to the
\* output function, or to the default output where there is none
Delivered(out, chunk) == <<chunk>>

\* where _mi_fputs writes: the default output for out == NULL
SinkOf(out) == IF out = 0 THEN "default" ELSE "callback"

\* ------------------------------------------------------------- global snapshot and print
\* a reset has returned and no counter was updated since
ResetReturned ==
  /\ hist.quiet.by # 0
  /\ (pc[hist.quiet.by] \notin {"reset_clk", "reset_latch"} \/ hist.quiet.n >= 2)

\* no counter update, merge or reset is in flight
NoUpdateInFlight == \A t \in Threads : pc[t] \notin UpdatePcs \cup MergePcs \cup ResetPcs

\* mutant: the walk starts at the main heap, the GlobalBlock is not folded in
FirstFolded_MainHeap(q) == [blk |-> q[1], hp |-> 1]

\* the block mi_stats_merge_all_heaps_stats folds in first: &_mi_stats_main
FirstFolded(q) == [blk |-> Main, hp |-> 0]

\* mi_malloc_stats_print(write_cb, cbopaque, opts) calls mi_stats_merge_all_heaps_stats:
\* merged_stats = _mi_stats_get_empty_stats(); _mi_heap_lock_heap_queue();
\* mi_stats_add(&merged_stats, &_mi_stats_main) is next
mi_malloc_stats_print(t, write_cb, cbopaque) ==
  /\ Begin(t, "call")
  /\ lock = 0
  /\ lock' = t
  /\ pc' = [pc EXCEPT ![t] = "snap_add"]
  /\ loc' = [loc EXCEPT ![t] = [IdleLoc EXCEPT !.op = "print", !.cb = write_cb, !.opq = cbopaque,
                                               !.blk = FirstFolded(heap_queue).blk,
                                               !.hp = FirstFolded(heap_queue).hp, !.k = 1]]
  /\ snap' = [snap EXCEPT ![t] = ZeroStats]
  /\ cb_last' = [cb_last EXCEPT ![t] = NoSinkCall]
  /\ hist' = [hist EXCEPT !.clean[t] = NoUpdateInFlight,
                          !.after_reset[t] = IF ResetReturned THEN hist.quiet.by ELSE 0,
                          !.floor[t] = IF hist.tally THEN EndedAllocated ELSE @]
  /\ sink' = [sink EXCEPT ![t] = NoText]
  /\ UNCHANGED <<stats, heap_queue, wrapper, mi_process_start, clock>>
  /\ UNCHANGED <<file, result, minfo, probe>>

\* mutant: the lock stays with the thread
Released_Kept(t) == t

\* the holder of the lock after _mi_heap_unlock_heap_queue() by thread t: none
Released(t) == 0

\* mutant: the snapshot folds a block in as a thread exit does, zeroing it afterwards
SnapAddStep_Merging(t) ==
  /\ pc[t] = "snap_add"
  /\ LET r == AddStep(snap[t], stats[loc[t].blk], loc[t].k)
         more == r.k <= Len(AddSteps)
         last == loc[t].hp + 1 > Len(heap_queue)
     IN /\ snap' = [snap EXCEPT ![t] = r.dst]
        /\ stats' = IF more THEN stats ELSE [stats EXCEPT ![loc[t].blk] = ZeroStats]
        /\ loc' = [loc EXCEPT ![t].k = IF more THEN r.k ELSE 1,
                              ![t].hp = IF more THEN @ ELSE @ + 1,
                              ![t].blk = IF more \/ last THEN @ ELSE heap_queue[loc[t].hp + 1]]
        /\ pc' = [pc EXCEPT ![t] = IF ~more /\ last THEN "snap_unlock" ELSE "snap_add"]
  /\ UNCHANGED <<heap_queue, lock, wrapper, cb_last, mi_process_start, clock,
                 ops_left, hist>>
  /\ UNCHANGED <<file, sink, result, minfo, probe>>

\* one step of mi_stats_add(&merged_stats, src); after its last step
\* heap = _mi_heap_main_get() or heap = heap->next_thread_heap, and while (heap != NULL)
SnapAddStep(t) ==
  /\ pc[t] = "snap_add"
  /\ LET r == AddStep(snap[t], stats[loc[t].blk], loc[t].k)
         more == r.k <= Len(AddSteps)
         last == loc[t].hp + 1 > Len(heap_queue)
     IN /\ snap' = [snap EXCEPT ![t] = r.dst]
        /\ loc' = [loc EXCEPT ![t].k = IF more THEN r.k ELSE 1,
                              ![t].hp = IF more THEN @ ELSE @ + 1,
                              ![t].blk = IF more \/ last THEN @ ELSE heap_queue[loc[t].hp + 1]]
        /\ pc' = [pc EXCEPT ![t] = IF ~more /\ last THEN "snap_unlock" ELSE "snap_add"]
  /\ UNCHANGED <<stats, heap_queue, lock, wrapper, cb_last, mi_process_start, clock,
                 ops_left, hist>>
  /\ UNCHANGED <<file, sink, result, minfo, probe>>

\* mutant: one arg_cb_wrapper_t with static storage, shared by all callers
ArgSlot_Static(t) == 0

\* where the arg_cb_wrapper_t of a call lives: an automatic variable of the caller
ArgSlot(t) == t

\* _mi_heap_unlock_heap_queue(); return merged_stats; then in mi_malloc_stats_print
\* if (write_cb == NULL) ... else { arg_cb_wrapper_t arg = { write_cb, cbopaque }; ... }
SnapUnlockStep(t) ==
  /\ pc[t] = "snap_unlock"
  /\ lock' = Released(t)
  /\ wrapper' = IF loc[t].cb = 0 THEN wrapper
                ELSE [wrapper EXCEPT ![ArgSlot(t)] = [write_cb |-> loc[t].cb, arg |-> loc[t].opq]]
  /\ pc' = [pc EXCEPT ![t] = "render"]
  /\ UNCHANGED <<stats, loc, snap, heap_queue, cb_last, mi_process_start, clock,
                 ops_left, hist>>
  /\ UNCHANGED <<file, sink, result, minfo, probe>>

\* _mi_stats_print: a line leaves the line buffer for the sink out0(msg, arg0); with a
\* callback the sink is mi_stats_print_out_callback_wrapper, which calls
\* arg_wrapper->write_cb(arg_wrapper->arg, message); after the last line
\* _mi_stats_print and mi_malloc_stats_print return
RenderStep(t) ==
  /\ pc[t] = "render"
  /\ cb_last' = [cb_last EXCEPT ![t] =
                   IF loc[t].cb = 0
                     THEN [n |-> loc[t].n + 1, cb |-> 0, arg |-> 0, passed_cb |-> 0, passed |-> 0]
                     ELSE [n |-> loc[t].n + 1, cb |-> wrapper[ArgSlot(t)].write_cb,
                           arg |-> wrapper[ArgSlot(t)].arg,
                           passed_cb |-> loc[t].cb, passed |-> loc[t].opq]]
  /\ IF loc[t].n + 1 < RenderLines
       THEN /\ loc' = [loc EXCEPT ![t].n = @ + 1]
            /\ UNCHANGED <<pc, hist>>
       ELSE /\ Return(t)
            /\ hist' = [hist EXCEPT !.clean[t] = FALSE, !.after_reset[t] = 0]
  /\ sink' = [sink EXCEPT ![t] =
                 [to |-> SinkOf(loc[t].cb),
                  text |-> @.text \o Delivered(loc[t].cb, TableLine(snap[t], loc[t].n + 1))]]
  /\ UNCHANGED <<stats, snap, heap_queue, lock, wrapper, mi_process_start, clock, ops_left>>
  /\ UNCHANGED <<file, result, minfo, probe>>

PrintStep(t) ==
  \/ SnapAddStep(t)
  \/ SnapUnlockStep(t)
  \/ RenderStep(t)

\* the arguments a thread passes: no callback, or its own callback and its own state
PrintArgs(t) == {[cb |-> 0, opq |-> 0], [cb |-> t, opq |-> t]}

\* ------------------------------------------------------------- markup report
\* what is written to the file, line by line: the XML declaration, an opening tag, a
\* closing tag, or an element with text only ("<name>text</name>")
Decl == [k |-> "decl", name |-> "xml", text |-> ""]

Open(name) == [k |-> "open", name |-> name, text |-> ""]

\* an opening tag with attributes
OpenWith(name, attrs) == [k |-> "open", name |-> name, text |-> attrs]

Close(name) == [k |-> "close", name |-> name, text |-> ""]

Leaf(name, text) == [k |-> "leaf", name |-> name, text |-> text]

\* mi_print_amount_xml: "<%s>%%s</%s>\n" filled by mi_printf_amount in XML mode
mi_print_amount_xml(name, n, unit) == <<Leaf(name, mi_printf_amount(n, unit, XML))>>

mi_print_count_xml(n, unit) ==
  IF unit = 1 THEN <<>> ELSE mi_print_amount_xml("count", n, 0)

mi_stat_print_allocation_result_xml(stat) ==
  IF stat.allocated > stat.freed
    THEN <<Leaf("result", "not all freed!")>>
    ELSE <<Leaf("result", "ok")>>

\* unit > 0: sizes in binary bytes
mi_stat_print_size_stats_xml(stat, unit) ==
  mi_print_amount_xml("peak", stat.peak, unit)
  \o mi_print_amount_xml("total", stat.allocated, unit)
  \o mi_print_amount_xml("freed", stat.freed, unit)
  \o mi_print_amount_xml("current", stat.current, unit)
  \o (IF unit # 1 THEN mi_print_amount_xml("unit", unit, 1) ELSE <<>>)
  \o mi_print_count_xml(stat.allocated, unit)

\* unit < 0: counts in binary, and the number of units allocated
mi_stat_print_binary_count_stats_xml(stat, unit) ==
  mi_print_amount_xml("peak", stat.peak, -1)
  \o mi_print_amount_xml("total", stat.allocated, -1)
  \o mi_print_amount_xml("freed", stat.freed, -1)
  \o mi_print_amount_xml("current", stat.current, -1)
  \o (IF unit # -1
        THEN mi_print_amount_xml("unit", -unit, 1)
             \o mi_print_count_xml(CDiv(stat.allocated, -unit), 0)
        ELSE <<>>)

mi_stat_print_size_stats_no_freed_xml(stat) ==
  mi_print_amount_xml("peak", stat.peak, -1)
  \o mi_print_amount_xml("total", stat.allocated, -1)
  \o mi_print_amount_xml("current", stat.current, -1)

mi_stat_print_body_xml(stat, unit) ==
  IF unit = 0
    THEN mi_stat_print_size_stats_no_freed_xml(stat)
    ELSE (IF unit > 0 THEN mi_stat_print_size_stats_xml(stat, unit)
                      ELSE mi_stat_print_binary_count_stats_xml(stat, unit))
         \o mi_stat_print_allocation_result_xml(stat)

\* mutant: the closing tag of an element is not written
mi_stat_print_xml_element_Unclosed(stat, name, unit) ==
  <<Open(name)>> \o mi_stat_print_body_xml(stat, unit)

\* mi_stat_print_xml_element_with_attrs with no attributes
mi_stat_print_xml_element(stat, name, unit) ==
  <<Open(name)>> \o mi_stat_print_body_xml(stat, unit) \o <<Close(name)>>

\* mi_print_allocations in XML mode: the class normal, then the total of the classes
\* (mi_stat_add of each class to a zero mi_stat_count_t)
mi_print_allocations_xml(s) ==
  mi_stat_print_xml_element(s["normal"], "normal", AllocationUnit(s))
  \o mi_stat_print_xml_element(AllocationsTotal(s), "total", 1)

\* mi_stats_print_xml for the counters of the model
mi_stats_print_xml(s) ==
  <<Open("allocations")>> \o mi_print_allocations_xml(s) \o <<Close("allocations")>>
  \o mi_stat_print_xml_element(s["reserved"], "reserved", 1)

EINVAL == "EINVAL"

\* mutant: the options are not looked at
InvalidOptions_None(options) == FALSE

\* if (options != 0)
InvalidOptions(options) == options # 0

\* int mi_malloc_info(int options, FILE *fp): if (options != 0) { errno = EINVAL;
\* return -1; }; then the declaration and "<malloc version=...>" are written to a file
\* that starts empty; _mi_heap_lock_heap_queue() is next
mi_malloc_info(t, options) ==
  /\ Begin(t, "call")
  /\ IF InvalidOptions(options)
       THEN /\ result' = [result EXCEPT ![t] = [returned |-> TRUE, ret |-> -1, errno |-> EINVAL,
                                                options |-> options]]
            /\ UNCHANGED <<pc, loc, file>>
       ELSE /\ result' = [result EXCEPT ![t] = [NoResult EXCEPT !.options = options]]
            /\ file' = [file EXCEPT ![t] = <<Decl, OpenWith("malloc", "version")>>]
            /\ pc' = [pc EXCEPT ![t] = "info_lock"]
            /\ loc' = [loc EXCEPT ![t] = [IdleLoc EXCEPT !.op = "info"]]
  /\ UNCHANGED <<stats, snap, heap_queue, lock, wrapper, cb_last, mi_process_start, clock,
                 hist, sink, minfo, probe>>

\* mutant: the element of a heap does not carry the id of its thread
HeapAttrs_NoId(thread_id) == "thread_id"

\* "<heap thread_id=\"%zu\">\n" with heap->thread_id; the heap of thread t carries t
HeapAttrs(thread_id) == "thread_id=\"" \o ToString(thread_id) \o "\""

\* _mi_heap_lock_heap_queue()
InfoLock(t) ==
  /\ pc[t] = "info_lock"
  /\ lock = 0
  /\ lock' = t
  /\ pc' = [pc EXCEPT ![t] = "info_main"]
  /\ UNCHANGED <<stats, loc, snap, heap_queue, wrapper, cb_last, mi_process_start, clock,
                 ops_left, hist, file, sink, result, minfo, probe>>

\* "<stats_main>", mi_stats_print_xml(&_mi_stats_main, ...), "</stats_main>";
\* heap = _mi_heap_main_get(). The block is read in one step.
InfoMain(t) ==
  /\ pc[t] = "info_main"
  /\ file' = [file EXCEPT ![t] = @ \o <<Open("stats_main")>> \o mi_stats_print_xml(stats[Main])
                                    \o <<Close("stats_main")>>]
  /\ loc' = [loc EXCEPT ![t].hp = 1]
  /\ pc' = [pc EXCEPT ![t] = IF Len(heap_queue) >= 1 THEN "info_heap" ELSE "info_unlock"]
  /\ UNCHANGED <<stats, snap, heap_queue, lock, wrapper, cb_last, mi_process_start, clock,
                 ops_left, hist, sink, result, minfo, probe>>

\* the body of while (heap != NULL): "<heap thread_id=...>", mi_stats_print_xml of the
\* heap's block, heap = heap->next_thread_heap, "</heap>". The block is read in one step.
InfoHeap(t) ==
  /\ pc[t] = "info_heap"
  /\ LET h == heap_queue[loc[t].hp]
     IN file' = [file EXCEPT ![t] = @ \o <<OpenWith("heap", HeapAttrs(h))>>
                                      \o mi_stats_print_xml(stats[h]) \o <<Close("heap")>>]
  /\ loc' = [loc EXCEPT ![t].hp = @ + 1]
  /\ pc' = [pc EXCEPT ![t] = IF loc[t].hp + 1 > Len(heap_queue) THEN "info_unlock"
                             ELSE "info_heap"]
  /\ UNCHANGED <<stats, snap, heap_queue, lock, wrapper, cb_last, mi_process_start, clock,
                 ops_left, hist, sink, result, minfo, probe>>

\* _mi_heap_unlock_heap_queue()
InfoUnlock(t) ==
  /\ pc[t] = "info_unlock"
  /\ lock' = Released(t)
  /\ pc' = [pc EXCEPT ![t] = "info_close"]
  /\ UNCHANGED <<stats, loc, snap, heap_queue, wrapper, cb_last, mi_process_start, clock,
                 ops_left, hist, file, sink, result, minfo, probe>>

\* "</malloc>" is written; return 0
InfoReturn(t) ==
  /\ pc[t] = "info_close"
  /\ file' = [file EXCEPT ![t] = @ \o <<Close("malloc")>>]
  /\ result' = [result EXCEPT ![t] = [@ EXCEPT !.returned = TRUE, !.ret = 0]]
  /\ Return(t)
  /\ UNCHANGED <<stats, snap, heap_queue, lock, wrapper, cb_last, mi_process_start, clock,
                 ops_left, hist, sink, minfo, probe>>

InfoStep(t) ==
  \/ InfoLock(t)
  \/ InfoMain(t)
  \/ InfoHeap(t)
  \/ InfoUnlock(t)
  \/ InfoReturn(t)

\* the options a caller passes to mi_malloc_info
InfoOptions == {0, 1}

\* ------------------------------------------------------------- specifications
\* threads update the GlobalBlock only
NextUpdates ==
  \/ \E t \in Threads, c \in SetOf(SizeNames), a \in Amounts : mi_stat_increase(t, Main, c, a)
  \/ \E t \in Threads, c \in SetOf(SizeNames), a \in Amounts : mi_stat_decrease(t, Main, c, a)
  \/ \E t \in Threads, c \in SetOf(FlowNames), a \in Amounts : mi_stat_counter_increase(t, Main, c, a)
  \/ \E t \in Threads : UpdateStep(t)

SpecUpdates == Init /\ [][NextUpdates]_vars

Quiescent == \A t \in Threads : pc[t] \in {"idle", "exited"}

\* C3: no update to the GlobalBlock is lost
C3_NoLostUpdate ==
  Quiescent =>
    /\ \A c \in SetOf(SizeNames) :
         /\ stats[Main][c].allocated = hist.inc[c]
         /\ stats[Main][c].freed = hist.dec[c]
         /\ stats[Main][c].current = hist.inc[c] - hist.dec[c]
    /\ \A c \in SetOf(FlowNames) :
         /\ stats[Main][c].count = hist.fl_n
         /\ stats[Main][c].total = hist.fl_sum

\* threads update their own heap block, merge it and exit
NextMerge ==
  \/ \E t \in Threads, c \in SetOf(SizeNames), a \in Amounts :
       mi_stat_increase(t, mi_stats_get_default(t), c, a)
  \/ \E t \in Threads, c \in SetOf(SizeNames), a \in Amounts :
       mi_stat_decrease(t, mi_stats_get_default(t), c, a)
  \/ \E t \in Threads, c \in SetOf(FlowNames), a \in Amounts :
       mi_stat_counter_increase(t, mi_stats_get_default(t), c, a)
  \/ \E t \in Threads : UpdateStep(t)
  \/ \E t \in Threads : mi_stats_merge(t)
  \/ \E t \in Threads : mi_stats_done(t)
  \/ \E t \in Threads : MergeStep(t)

SpecMerge == Init /\ [][NextMerge]_vars

\* C4: after the last merge the GlobalBlock holds, field by field, the sum of the
\* local blocks as they were when their merges began
C4_MergeConservation == Quiescent => stats[Main] = hist.merged

\* the calls of a thread that update the counters named, of the GlobalBlock or of its own block
UpdateCallOn(t, names) ==
  \/ \E b \in {Main, mi_stats_get_default(t)}, c \in SetOf(SizeNames) \cap names, a \in Amounts :
       mi_stat_increase(t, b, c, a)
  \/ \E b \in {Main, mi_stats_get_default(t)}, c \in SetOf(SizeNames) \cap names, a \in Amounts :
       mi_stat_decrease(t, b, c, a)
  \/ \E b \in {Main, mi_stats_get_default(t)}, c \in SetOf(FlowNames) \cap names, a \in Amounts :
       mi_stat_counter_increase(t, b, c, a)

UpdateCall(t) == UpdateCallOn(t, SetOf(SizeNames) \cup SetOf(FlowNames))

\* the counters an allocation or a free updates
AllocCall(t) == UpdateCallOn(t, {"normal", "normal_count"})

\* updates and merges, no reset
NextNoReset ==
  \/ \E t \in Threads : UpdateCall(t)
  \/ \E t \in Threads : UpdateStep(t)
  \/ \E t \in Threads : mi_stats_merge(t)
  \/ \E t \in Threads : mi_stats_done(t)
  \/ \E t \in Threads : MergeStep(t)

SpecNoReset == Init /\ [][NextNoReset]_vars

\* every entry point
Next ==
  \/ \E t \in Threads : UpdateCall(t)
  \/ \E t \in Threads : UpdateStep(t)
  \/ \E t \in Threads : mi_stats_merge(t)
  \/ \E t \in Threads : mi_stats_done(t)
  \/ \E t \in Threads : MergeStep(t)
  \/ \E t \in Threads : mi_stats_reset(t)
  \/ \E t \in Threads : ResetStep(t)
  \/ \E t \in Threads : \E a \in PrintArgs(t) : mi_malloc_stats_print(t, a.cb, a.opq)
  \/ \E t \in Threads : PrintStep(t)
  \/ \E t \in Threads, o \in InfoOptions : mi_malloc_info(t, o)
  \/ \E t \in Threads : InfoStep(t)

Spec == Init /\ [][Next]_vars

\* updates, merges, thread exits and global snapshots
NextPrint ==
  \/ \E t \in Threads : AllocCall(t)
  \/ \E t \in Threads : UpdateStep(t)
  \/ \E t \in Threads : mi_stats_merge(t)
  \/ \E t \in Threads : mi_stats_done(t)
  \/ \E t \in Threads : MergeStep(t)
  \/ \E t \in Threads : \E a \in PrintArgs(t) : mi_malloc_stats_print(t, a.cb, a.opq)
  \/ \E t \in Threads : PrintStep(t)

SpecPrint == Init /\ [][NextPrint]_vars

\* updates, resets and global snapshots
NextReset ==
  \/ \E t \in Threads : AllocCall(t)
  \/ \E t \in Threads : UpdateStep(t)
  \/ \E t \in Threads : mi_stats_reset(t)
  \/ \E t \in Threads : ResetStep(t)
  \/ \E t \in Threads : \E a \in PrintArgs(t) : mi_malloc_stats_print(t, a.cb, a.opq)
  \/ \E t \in Threads : PrintStep(t)

SpecReset == Init /\ [][NextReset]_vars

\* the updates of an allocation or a free in the caller's heap
HeapAllocCall(t) ==
  \/ \E a \in Amounts : mi_stat_increase(t, mi_stats_get_default(t), "normal", a)
  \/ \E a \in Amounts : mi_stat_decrease(t, mi_stats_get_default(t), "normal", a)
  \/ \E a \in Amounts : mi_stat_counter_increase(t, mi_stats_get_default(t), "normal_count", a)

\* updates and both reports: the table of a global snapshot and the markup report
NextReport ==
  \/ \E t \in Threads : HeapAllocCall(t)
  \/ \E t \in Threads : UpdateStep(t)
  \/ \E t \in Threads : \E a \in PrintArgs(t) : mi_malloc_stats_print(t, a.cb, a.opq)
  \/ \E t \in Threads : PrintStep(t)
  \/ \E t \in Threads, o \in InfoOptions : mi_malloc_info(t, o)
  \/ \E t \in Threads : InfoStep(t)

SpecReport == Init /\ [][NextReport]_vars

\* the sizes of the allocations looked at, three of the normal sizes of the test
AllocSizes == {8, 16, 192}

\* a block after n allocations of one size in the class normal, k of them freed again
AfterAllocs(n, size, k) ==
  [ZeroStats EXCEPT !["normal"] = [allocated |-> n * size, freed |-> k * size,
                                   current |-> (n - k) * size, peak |-> n * size],
                    !["normal_count"] = [count |-> n, total |-> n]]

SampleBlocks ==
  UNION {{AfterAllocs(n, size, 0), AfterAllocs(n, size, n)} :
           n \in {0, MaxAllocs}, size \in AllocSizes}

\* the main heap alone, or the heaps of all threads
LiveHeaps == {<<MainThread>>, [i \in 1..CONCURRENT_THREADS_COUNT |-> i]}

\* the program at the time of a markup report: blocks that hold allocations, and the
\* heaps that are alive
InitMarkup ==
  /\ stats \in [Blocks -> SampleBlocks]
  /\ heap_queue \in LiveHeaps
  /\ \A b \in Threads \ SetOf(heap_queue) : stats[b] = ZeroStats
  /\ pc = [t \in Threads |-> IF t \in SetOf(heap_queue) THEN "idle" ELSE "exited"]
  /\ loc = [t \in Threads |-> IdleLoc]
  /\ snap = [t \in Threads |-> ZeroStats]
  /\ lock = 0
  /\ wrapper = [s \in {0} \cup Threads |-> [write_cb |-> 0, arg |-> 0]]
  /\ cb_last = [t \in Threads |-> NoSinkCall]
  /\ mi_process_start = 0
  /\ clock = 0
  /\ file = [t \in Threads |-> <<>>]
  /\ sink = [t \in Threads |-> NoText]
  /\ result = [t \in Threads |-> NoResult]
  /\ minfo = [t \in Threads |-> NoMinfo]
  /\ ops_left = [update |-> 0, call |-> MaxCalls]
  /\ hist = HistInit
  /\ probe = IdleProbe

\* markup reports only
NextMarkup ==
  \/ \E t \in Threads, o \in InfoOptions : mi_malloc_info(t, o)
  \/ \E t \in Threads : InfoStep(t)

SpecMarkup == InitMarkup /\ [][NextMarkup]_vars

\* resets while time passes
NextClock ==
  \/ \E t \in Threads : mi_stats_reset(t)
  \/ \E t \in Threads : ResetStep(t)
  \/ Tick

SpecClock == Init /\ [][NextClock]_vars

\* ---------------------------------------------------------------------------
\* properties

\* current == allocated - freed in every size counter of every block
CurrentIsDifference ==
  \A b \in Blocks : \A c \in SetOf(SizeNames) :
    stats[b][c].current = stats[b][c].allocated - stats[b][c].freed

\* C1: at every point where no update, merge or reset is in flight, every size counter
\* of the GlobalBlock and of every heap block has current == allocated - freed
C1_CurrentIsDifference == NoUpdateInFlight => CurrentIsDifference

\* peak >= current in every size counter of every block
PeakBoundsCurrent ==
  \A b \in Blocks : \A c \in SetOf(SizeNames) : stats[b][c].peak >= stats[b][c].current

\* C2: whenever no update or merge is in flight, peak >= current holds in every heap
\* block and in the GlobalBlock
C2_PeakBoundsCurrent == NoUpdateInFlight => PeakBoundsCurrent

\* C3 is reached: an increase and a decrease of one counter by two threads have both
\* completed on the GlobalBlock
C3_Reached ==
  /\ Quiescent
  /\ hist.inc["normal"] = MaxAmount
  /\ hist.dec["normal"] = MaxAmount
  /\ stats[Main]["normal"].allocated = MaxAmount
  /\ stats[Main]["normal"].freed = MaxAmount

\* C4 is reached: both threads have merged a block that counted something, one of
\* them on its exit
C4_Reached ==
  /\ Quiescent
  /\ hist.mergers = Threads
  /\ \E t \in Threads \ {MainThread} : pc[t] = "exited"
  /\ \A t \in Threads : stats[t] = ZeroStats
  /\ stats[Main] # ZeroStats

\* the snapshot of thread t is complete
SnapDone(t) == pc[t] \in {"snap_unlock", "render"}

RECURSIVE HeapSum(_)
\* the field-wise sum of the blocks of the heaps on the list from position i on
HeapSum(i) ==
  IF i > Len(heap_queue) THEN ZeroStats
  ELSE BlockSum(stats[heap_queue[i]], HeapSum(i + 1))

\* the GlobalBlock plus the block of every heap on the list, each once
GlobalSum == BlockSum(stats[Main], HeapSum(1))

\* C5: a snapshot taken while no update or merge ran reports, field by field, the
\* GlobalBlock plus the blocks of the heaps on the live-heap list, each counted once
C5_SnapshotIsSum ==
  \A t \in Threads : SnapDone(t) /\ hist.clean[t] => snap[t] = GlobalSum

\* C5 is reached: the snapshot holds counts of the GlobalBlock and of the block of
\* another, still running, thread
C5_Reached ==
  \E t \in Threads : \E h \in Threads \ {t} :
    /\ SnapDone(t) /\ hist.clean[t]
    /\ pc[h] # "exited"
    /\ stats[h]["normal"].allocated > 0
    /\ stats[Main]["normal"].allocated > 0
    /\ snap[t]["normal"].allocated = 2 * MaxAmount

\* C6: the sink of a print call is called with the callback and the state that this
\* call was given, whatever another thread's print call was given
C6_CallbackIsolated ==
  \A t \in Threads :
    cb_last[t].n > 0 =>
      /\ cb_last[t].cb = cb_last[t].passed_cb
      /\ cb_last[t].arg = cb_last[t].passed

\* C6 is reached: two print calls with different callbacks are in progress at once,
\* and the sink of one of them has been called
C6_Reached ==
  \E t \in Threads : \E u \in Threads \ {t} :
    /\ pc[t] = "render" /\ pc[u] = "render"
    /\ loc[t].cb # 0 /\ loc[u].cb # 0 /\ loc[t].cb # loc[u].cb
    /\ cb_last[t].n > 0
    /\ cb_last[t].cb = loc[t].cb

\* a step of mi_malloc_stats_print by some thread
PrintAction ==
  \E t \in Threads :
    \/ \E a \in PrintArgs(t) : mi_malloc_stats_print(t, a.cb, a.opq)
    \/ PrintStep(t)

\* two complete snapshots with no update between them are the same
SnapshotsAgree ==
  \A t \in Threads : \A u \in Threads :
    SnapDone(t) /\ SnapDone(u) /\ hist.clean[t] /\ hist.clean[u] => snap[t] = snap[u]

\* C7: no step of mi_malloc_stats_print changes a counter, and two snapshots with no
\* update in between are identical
C7_PrintChangesNothing ==
  /\ [][PrintAction => stats' = stats]_vars
  /\ []SnapshotsAgree

\* C7 is reached: two snapshots of non-zero counters, with no update in between
C7_Reached ==
  \E t \in Threads : \E u \in Threads \ {t} :
    /\ SnapDone(t) /\ SnapDone(u) /\ hist.clean[t] /\ hist.clean[u]
    /\ snap[t]["normal"].allocated > 0
    /\ stats[Main]["normal"].allocated + stats[t]["normal"].allocated
         + stats[u]["normal"].allocated > 0

\* the snapshot of thread t began after a reset had returned, with no update since
SnapAfterReset(t) == SnapDone(t) /\ hist.after_reset[t] # 0

\* C8 as stated: after mi_stats_reset has returned (no counter having been stored to
\* during the call), a snapshot reports every counter at zero until the next update
C8_ZeroAfterReset_AsStated ==
  \A t \in Threads : SnapAfterReset(t) => snap[t] = ZeroStats

\* C8: after mi_stats_reset has returned (no counter having been stored to during the
\* call), and until the next update, a snapshot reports every counter at zero if the
\* block of every heap other than the resetting thread's is all zero
C8_ZeroAfterReset ==
  \A t \in Threads :
    /\ SnapAfterReset(t)
    /\ \A h \in Threads \ {hist.after_reset[t]} : stats[h] = ZeroStats
    => snap[t] = ZeroStats

\* C8 is reached: counters were updated, a thread has reset, and a snapshot follows
C8_Reached ==
  \E t \in Threads :
    /\ SnapAfterReset(t)
    /\ \A h \in Threads \ {hist.after_reset[t]} : stats[h] = ZeroStats
    /\ hist.quiet.by = hist.after_reset[t]
    /\ hist.quiet.dirty

\* C9: after one or more calls of mi_stats_reset by a thread (no counter having been
\* stored to during the calls), and until the next update, the GlobalBlock and that
\* thread's block are all zero, whatever they were before
C9_ResetIdempotent ==
  hist.quiet.by # 0 =>
    /\ stats[Main] = ZeroStats
    /\ stats[mi_stats_get_default(hist.quiet.by)] = ZeroStats

\* C9 is reached: the second of two consecutive resets has returned, the first having
\* cleared counters that were updated
C9_Reached ==
  /\ hist.quiet.n = 2
  /\ hist.quiet.dirty
  /\ pc[hist.quiet.by] = "idle"

\* no reset is in flight
NoResetInFlight == \A t \in Threads : pc[t] \notin ResetPcs

RECURSIVE Concat(_)
\* the chunks of a sink, one after the other
Concat(chunks) == IF chunks = <<>> THEN "" ELSE Head(chunks) \o Concat(Tail(chunks))

\* the last mi_malloc_stats_print of thread t has returned
PrintReturned(t) ==
  /\ pc[t] \notin {"snap_add", "snap_unlock", "render"}
  /\ cb_last[t].n = RenderLines

InfoPcs == {"info_lock", "info_main", "info_heap", "info_unlock", "info_close"}

\* C11: the heap queue lock is never held while output is written: no step in which a
\* thread writes to the file of mi_malloc_info or to the sink of mi_malloc_stats_print
\* is taken by a thread that holds the lock
C11_NoWriteUnderLock ==
  [][\A t \in Threads :
       (file'[t] # file[t] \/ Len(sink'[t].text) > Len(sink[t].text)) => lock # t]_vars

\* C12: the update path never takes the heap queue lock: a thread can begin an update
\* whenever it is idle, and a thread inside an update can take its next step, whoever
\* holds the lock
C12_UpdateNeverBlocked ==
  \A t \in Threads :
    /\ (pc[t] = "idle" /\ ops_left.update > 0) => ENABLED HeapAllocCall(t)
    /\ pc[t] \in UpdatePcs => ENABLED UpdateStep(t)

\* C12 is reached: a thread is inside an update while another one holds the lock
\* inside the markup report
C12_Reached ==
  \E t \in Threads : \E u \in Threads \ {t} :
    /\ pc[t] \in UpdatePcs
    /\ lock = u /\ pc[u] \in {"info_main", "info_heap"}

\* C15: mi_malloc_info called with options != 0 returns -1 with errno EINVAL, and the
\* call writes nothing to the file, leaves the heap queue lock alone and changes no
\* counter; called with options == 0 it returns 0
C15_InvalidOptions ==
  /\ [](\A t \in Threads :
          result[t].returned =>
            IF result[t].options # 0
              THEN result[t].ret = -1 /\ result[t].errno = EINVAL
              ELSE result[t].ret = 0)
  /\ [][\A t \in Threads : \A o \in InfoOptions \ {0} :
          mi_malloc_info(t, o) =>
            /\ result'[t].returned
            /\ file' = file /\ lock' = lock /\ stats' = stats /\ pc' = pc]_vars

\* C15 is reached: a call with options 1 has returned -1, and another thread's call
\* with options 0 has written its report and returned 0
C15_Reached ==
  \E t \in Threads : \E u \in Threads \ {t} :
    /\ result[t] = [returned |-> TRUE, ret |-> -1, errno |-> EINVAL, options |-> 1]
    /\ result[u].returned /\ result[u].ret = 0 /\ result[u].options = 0
    /\ file[u] # <<>>

\* ---------------------------------------------------------------------------
\* the markup written by mi_malloc_info

RECURSIVE Nested(_, _, _)
\* the tokens of f from position i on close the elements on the stack, innermost first,
\* and nothing follows the end of the outermost one
Nested(f, i, stack) ==
  IF i > Len(f) THEN stack = <<>>
  ELSE IF stack = <<>> THEN FALSE
  ELSE CASE f[i].k = "open" -> Nested(f, i + 1, <<f[i].name>> \o stack)
         [] f[i].k = "close" -> Head(stack) = f[i].name /\ Nested(f, i + 1, Tail(stack))
         [] f[i].k = "leaf" -> Nested(f, i + 1, stack)
         [] OTHER -> FALSE

\* a declaration, then the single element malloc with properly nested content
WellFormed(f) ==
  /\ Len(f) >= 3
  /\ f[1] = Decl
  /\ f[2].k = "open" /\ f[2].name = "malloc"
  /\ Nested(f, 3, <<"malloc">>)

\* C19: whatever the counters hold and however many heaps are alive, the tags written
\* by mi_malloc_info(0, fp) are well-formed: every element opened is closed by a matching
\* tag in stack order, all inside the single element malloc
C19_WellFormedMarkup ==
  \A t \in Threads :
    (result[t].returned /\ result[t].ret = 0) => WellFormed(file[t])

\* C19 is reached: a report has returned that holds the GlobalBlock and two heaps, with
\* an element that carries a unit and a count and one that does not, and with a class
\* of which not all was freed
C19_Reached ==
  \E t \in Threads :
    /\ result[t].returned /\ result[t].ret = 0
    /\ Len(SelectSeq(file[t], LAMBDA x : x.k = "open" /\ x.name = "heap")) = 2
    /\ \E i \in 1..Len(file[t]) : file[t][i].k = "leaf" /\ file[t][i].name = "count"
    /\ \E i \in 1..Len(file[t]) : file[t][i] = Leaf("result", "not all freed!")
    /\ \E i \in 1..Len(file[t]) : file[t][i] = Leaf("unit", "8 B")

\* ---------------------------------------------------------------------------
\* rendering of amounts alone

\* the amounts handed to mi_printf_amount when it is looked at alone
RenderInputs == (-MaxRendered)..MaxRendered

\* amounts beyond the first magnitude: just past a tenth of a KiB, the last amounts
\* before 2 KiB and before 1 MiB, and their negations
ScaledInputs == {1126, 2047, 1024 * 1024 - 1, 1024 * 1024, -1126, -2047}

InitRender ==
  /\ InitProgram
  /\ hist = HistInit
  /\ probe \in [op : {"render"}, n : RenderInputs \cup ScaledInputs, unit : {-1, 0, 1},
                print_mode : {TABLE, XML}, buf : {""}, done : {FALSE}]

\* one call of mi_printf_amount
RenderAmount ==
  /\ probe.op = "render" /\ ~probe.done
  /\ probe' = [probe EXCEPT !.buf = mi_printf_amount(probe.n, probe.unit, probe.print_mode),
                            !.done = TRUE]
  /\ UNCHANGED <<stats, pc, loc, snap, heap_queue, lock, wrapper, cb_last, mi_process_start,
                 clock, ops_left, hist, file, sink, result, minfo>>

NextRender == RenderAmount

SpecRender == InitRender /\ [][NextRender]_vars

\* a byte amount has been rendered under unit = 1
RenderedBytes == probe.op = "render" /\ probe.done /\ probe.unit = 1

\* the text of an amount below 1024 with the byte suffix
PlainBytes(n, print_mode) == ToString(n) \o (IF print_mode = XML THEN " B" ELSE " B  ")

\* C20 as stated: under unit = 1, 1024 renders as 1.0 KiB, 0 renders as 0 with no
\* suffix, and every n with 0 < n < 1024 renders as n followed by B
C20_UnitBoundary_AsStated ==
  RenderedBytes =>
    /\ probe.n = 1024 => probe.buf = "1.0 KiB"
    /\ probe.n = 0 => probe.buf = (IF probe.print_mode = XML THEN "0" ELSE "0    ")
    /\ (0 < probe.n /\ probe.n < 1024) => probe.buf = PlainBytes(probe.n, probe.print_mode)

\* C20: under unit = 1, 1024 renders as 1.0 KiB, 0 renders as 0 with no suffix, every
\* n with 1 < n < 1024 renders as n followed by B, and 1 renders as the empty string
C20_UnitBoundary ==
  RenderedBytes =>
    /\ probe.n = 1024 => probe.buf = "1.0 KiB"
    /\ probe.n = 0 => probe.buf = (IF probe.print_mode = XML THEN "0" ELSE "0    ")
    /\ (1 < probe.n /\ probe.n < 1024) => probe.buf = PlainBytes(probe.n, probe.print_mode)
    /\ probe.n = 1 => probe.buf = ""

\* C20 is reached: 1024 bytes have been rendered
C20_Reached == RenderedBytes /\ probe.n = 1024 /\ probe.buf = "1.0 KiB"

\* ------------------------------------------------------------- amounts at the edges of size_t
\* amounts of 2^(WordBits-1) and more, which (int64_t)amount turns negative; the amount
\* 2^(WordBits-1) itself is left out, -((int64_t)amount) being an overflow for it
HugeAmounts == {INT64_MAX + 2, SIZE_MAX}

CoercedAmounts == {0} \cup HugeAmounts

InitCoerce ==
  /\ InitState
  /\ ops_left = [update |-> MaxCoerced, call |-> 0]
  /\ hist = [HistInit EXCEPT !.watch = TRUE]
  /\ probe = IdleProbe

\* _mi_stat_increase and _mi_stat_decrease of the counter normal, of the GlobalBlock or of
\* the caller's block, with an amount of zero or a huge one
NextCoerce ==
  \/ \E t \in Threads : \E b \in {Main, mi_stats_get_default(t)}, a \in CoercedAmounts :
       mi_stat_increase(t, b, "normal", a)
  \/ \E t \in Threads : \E b \in {Main, mi_stats_get_default(t)}, a \in CoercedAmounts :
       mi_stat_decrease(t, b, "normal", a)
  \/ \E t \in Threads : mi_stat_update_peak(t)
  \/ \E t \in Threads : mi_stat_update_total(t)

SpecCoerce == InitCoerce /\ [][NextCoerce]_vars

\* C13: an update whose amount is 2^63 or more (negative once coerced to int64_t) is a
\* no-op: where every update call passes zero or such an amount, no counter ever leaves
\* its initial value
C13_HugeIsNoOp == stats = [b \in Blocks |-> ZeroStats]

\* a step that enters an update call
UpdateEntered == ops_left'.update < ops_left.update

\* C14: an increase or a decrease by zero stores to no field of the counter, of a heap's
\* block and of the GlobalBlock alike: the step that enters it leaves current, peak,
\* allocated and freed of every counter as they were, and the call has returned
C14_ZeroIsNoOp ==
  [][\A b \in Blocks :
       (UpdateEntered /\ hist'.seen[b] # hist.seen[b] /\ hist'.seen[b].amount = 0)
          => stats' = stats /\ pc' = pc]_vars

\* a zero amount was passed for a counter of the GlobalBlock and for one of a heap's block,
\* each of them a counter that earlier updates had moved
C14_Reached ==
  /\ \E b \in Blocks \ {Main} : /\ hist.seen[b].n = 1 /\ hist.seen[b].amount = 0
                                /\ hist.seen[b].counter.current # 0
                                /\ hist.seen[b].counter.peak # 0
  /\ hist.seen[Main].n = 1 /\ hist.seen[Main].amount = 0
  /\ hist.seen[Main].counter.current # 0
  /\ hist.seen[Main].counter.peak # 0

\* ------------------------------------------------------------- allocations as reported
\* a whole mi_stat_update(stat, amount) of a counter of block b, with nothing in between
Updated(b, counter, amount) ==
  IF IsNoOp(amount) THEN counter
  ELSE LET added == [counter EXCEPT !.current = @ + amount]
           peaked == [added EXCEPT !.peak = PeakAfter(b, added, counter.current, amount)]
       IN TotalAfter(peaked, amount)

KiB == 1024

\* the blocks of 8 bytes allocated and freed before: 8 bytes short of one MiB
FreedBlocks == {0, (KiB * KiB) \div 8 - 1}

\* the heap block of a thread that has 8 bytes in n8 live blocks and 16 in n16, after it
\* allocated and freed k blocks of 8 bytes
Baseline(n8, n16, k) ==
  [ZeroStats EXCEPT !["normal"] = [allocated |-> 8 * k + 8 * n8 + 16 * n16, freed |-> 8 * k,
                                   current |-> 8 * n8 + 16 * n16,
                                   peak |-> Max(8 * k, 8 * n8 + 16 * n16)],
                    !["normal_count"] = [count |-> k + n8 + n16, total |-> k + n8 + n16]]

Baselines == {Baseline(n8, n16, k) : n8 \in {0, 8}, n16 \in {0, 1}, k \in FreedBlocks}

\* the element of the class normal in the markup report of a block
NormalElement(s) == mi_stat_print_xml_element(s["normal"], "normal", AllocationUnit(s))

\* the text of the first child element of that name, "" where there is none
LeafText(tokens, name) ==
  LET found == SelectSeq(tokens, LAMBDA x : x.k = "leaf" /\ x.name = name)
  IN IF found = <<>> THEN "" ELSE Head(found).text

DigitOf(ch) ==
  CASE ch = "0" -> 0 [] ch = "1" -> 1 [] ch = "2" -> 2 [] ch = "3" -> 3 [] ch = "4" -> 4
    [] ch = "5" -> 5 [] ch = "6" -> 6 [] ch = "7" -> 7 [] ch = "8" -> 8 [] ch = "9" -> 9
    [] OTHER -> -1

RECURSIVE Digits(_, _, _)
\* the decimal number that starts at position i of str, and the position after it
Digits(str, i, acc) ==
  IF i <= Len(str) /\ DigitOf(SubSeq(str, i, i)) >= 0
    THEN Digits(str, i + 1, 10 * acc + DigitOf(SubSeq(str, i, i)))
    ELSE [v |-> acc, i |-> i]

\* what a magnitude stands for: K, M, G in thousands for a count, Ki, Mi, Gi in binary
Magnitude(rest) ==
  LET m == IF Len(rest) >= 2 THEN SubSeq(rest, 2, 2) ELSE ""
      binary == Len(rest) >= 3 /\ SubSeq(rest, 3, 3) = "i"
      base == IF binary THEN KiB ELSE 1000
  IN CASE m = "K" -> base [] m = "M" -> base * base [] m = "G" -> base * base * base
       [] OTHER -> 1

\* ten times the amount that the text of a report element stands for; 0 where there is
\* no element (get_count of the test)
ReportedTenths(str) ==
  IF str = "" THEN 0
  ELSE LET neg == SubSeq(str, 1, 1) = "-"
           whole == Digits(str, IF neg THEN 2 ELSE 1, 0)
           dot == whole.i <= Len(str) /\ SubSeq(str, whole.i, whole.i) = "."
           frac == IF dot THEN Digits(str, whole.i + 1, 0) ELSE [v |-> 0, i |-> whole.i]
           rest == SubSeq(str, frac.i, Len(str))
       IN (IF neg THEN -1 ELSE 1) * (10 * whole.v + frac.v) * Magnitude(rest)

\* populate_allocations of the test: what the report of a block says about the class
Reported(s) ==
  [count |-> ReportedTenths(LeafText(NormalElement(s), "count")),
   total |-> ReportedTenths(LeafText(NormalElement(s), "total")),
   freed |-> ReportedTenths(LeafText(NormalElement(s), "freed"))]

NoReport == [count |-> 0, total |-> 0, freed |-> 0]

\* test_allocations: a thread alone reads the report, allocates, reads the report, frees
\* what it allocated and reads the report again
InitAccount ==
  /\ InitState
  /\ ops_left = [update |-> 0, call |-> 0]
  /\ hist = HistInit
  /\ \E base \in Baselines :
       probe = [op |-> "account", phase |-> "before", base |-> base, live |-> <<>>, n |-> 0,
                sum |-> 0, block |-> base, allocated_mid |-> 0,
                before |-> NoReport, mid |-> NoReport, after |-> NoReport]

\* mi_malloc(size) in the class normal: the allocation engine increases normal by the
\* size of the block and counts the allocation in normal_count
AccountMalloc(size) ==
  /\ probe.op = "account" /\ probe.phase = "alloc"
  /\ probe.n < MaxAllocs
  /\ probe' = [probe EXCEPT
                 !.block["normal"] = Updated(MainThread, @, ToInt64(size)),
                 !.block["normal_count"] = [count |-> @.count + 1, total |-> @.total + 1],
                 !.live = Append(@, size), !.n = @ + 1, !.sum = @ + size]
  /\ UNCHANGED <<stats, pc, loc, snap, heap_queue, lock, wrapper, cb_last, mi_process_start, clock,
                 ops_left, hist, file, sink, result, minfo>>

\* mi_free of the block allocated first: the allocation engine decreases normal by its size
AccountFree ==
  /\ probe.op = "account" /\ probe.phase = "free"
  /\ probe.live # <<>>
  /\ probe' = [probe EXCEPT
                 !.block["normal"] = Updated(MainThread, @, -ToInt64(Head(probe.live))),
                 !.live = Tail(@)]
  /\ UNCHANGED <<stats, pc, loc, snap, heap_queue, lock, wrapper, cb_last, mi_process_start, clock,
                 ops_left, hist, file, sink, result, minfo>>

\* get_doc_ptr and populate_allocations: before the allocations, after them, after the frees
AccountReport ==
  /\ probe.op = "account"
  /\ probe' = CASE probe.phase = "before" ->
                     [probe EXCEPT !.before = Reported(probe.block), !.phase = "alloc"]
                [] probe.phase = "alloc" /\ probe.n > 0 ->
                     [probe EXCEPT !.mid = Reported(probe.block), !.phase = "free",
                                   !.allocated_mid = probe.block["normal"].allocated]
                [] probe.phase = "free" /\ probe.live = <<>> ->
                     [probe EXCEPT !.after = Reported(probe.block), !.phase = "done"]
                [] OTHER -> probe
  /\ probe' # probe
  /\ UNCHANGED <<stats, pc, loc, snap, heap_queue, lock, wrapper, cb_last, mi_process_start, clock,
                 ops_left, hist, file, sink, result, minfo>>

NextAccount ==
  \/ \E size \in AllocSizes : AccountMalloc(size)
  \/ AccountFree
  \/ AccountReport

SpecAccount == InitAccount /\ [][NextAccount]_vars

\* C17: after N allocations in the class normal with no frees, the count that the markup
\* report gives for the class is at least the count it gave before plus N, and the total
\* it gives is not smaller than before; from a block with no allocation the count is at
\* least N and the total at least the bytes allocated
C17_AllocationsReported ==
  (probe.op = "account" /\ probe.phase \in {"free", "done"}) =>
    /\ probe.mid.count >= probe.before.count + 10 * probe.n
    /\ probe.mid.total >= probe.before.total
    /\ probe.base = ZeroStats =>
         /\ probe.mid.count >= 10 * probe.n
         /\ probe.mid.total >= 10 * probe.sum

\* C18: after a thread has freed all the allocations it made in the class normal, freed
\* of the class in its heap block is at least the allocated seen before the frees began,
\* and the freed that the markup report gives after the frees is not smaller than the
\* one it gave before them
C18_FreesReported ==
  (probe.op = "account" /\ probe.phase = "done") =>
    /\ probe.base["normal"].current = 0 =>
         probe.block["normal"].freed >= probe.allocated_mid
    /\ probe.after.freed >= probe.mid.freed

\* ------------------------------------------------------------- scaled amounts
\* the magnitude mi_printf_amount selects for an amount of at least base
Divisor(n, base) ==
  IF Abs(n) >= base * base * base THEN base * base * base
  ELSE IF Abs(n) >= base * base THEN base * base ELSE base

\* the number n * 10 / divisor, split in a whole part and one fraction digit
TenthsOf(n, base) == CDiv(n * 10, Divisor(n, base))

\* an amount of at least the base has been rendered
RenderedScaled ==
  /\ probe.op = "render" /\ probe.done
  /\ Abs(probe.n) >= (IF probe.unit = 0 THEN 1000 ELSE 1024)

\* the text before the first space
RECURSIVE FirstWord(_)
FirstWord(str) ==
  IF Len(str) = 0 \/ SubSeq(str, 1, 1) = " " THEN "" ELSE SubSeq(str, 1, 1) \o FirstWord(SubSeq(str, 2, Len(str)))

\* C21: for an amount n with |n| >= base, the number printed by mi_printf_amount is
\* whole = (n * 10 / divisor) / 10 and fraction digit = (n * 10 / divisor) mod 10,
\* divisor being the selected power of the base
C21_ScaledByTen ==
  RenderedScaled =>
    LET base == IF probe.unit = 0 THEN 1000 ELSE 1024
        tenths == TenthsOf(probe.n, base)
    IN FirstWord(probe.buf) = ToString(CDiv(tenths, 10)) \o "." \o ToString(Abs(CMod(tenths, 10)))

\* ------------------------------------------------------------- the leak indicator
\* token i of f lies inside an element called name
InElement(f, i, name) ==
  \E j \in 1..(i - 1) :
    /\ f[j].k = "open" /\ f[j].name = name
    /\ \A m \in (j + 1)..(i - 1) : ~(f[m].k = "close" /\ f[m].name = name)

\* the row of the table ends with the leak indicator
EndsWith(line, tail) ==
  Len(line) >= Len(tail) /\ SubSeq(line, Len(line) - Len(tail) + 1, Len(line)) = tail

HasIndicator(line) == EndsWith(line, "  ok\n") \/ EndsWith(line, "  not all freed!\n")

\* C22: the leak indicator ("not all freed!" or "ok") is rendered only for the
\* allocation categories, which are expected to balance; it is not rendered for a
\* counter that only grows, such as reserved, neither in the markup nor in the table
C22_IndicatorOnlyWhereBalanced ==
  \A t \in Threads :
    (result[t].returned /\ result[t].ret = 0) =>
      /\ \A i \in 1..Len(file[t]) :
           (file[t][i].k = "leaf" /\ file[t][i].name = "result")
             => ~InElement(file[t], i, "reserved")
      /\ ~HasIndicator(mi_stat_print(stats[Main]["reserved"], "reserved", 1))

\* ------------------------------------------------------------- the line buffer
\* buffered_t.count, XML_STATS_PRINT_BUFFERED_COUNT in the program, and the number of
\* fragments handed to one buffer
BufferCount == 3
MaxFragments == 4

\* the fragments _mi_fprintf hands to mi_buffered_out: up to two characters, each a
\* letter or a line terminator
FragmentChars == {"a", "\n"}
Fragments == {""} \cup FragmentChars \cup {x \o y : x \in FragmentChars, y \in FragmentChars}

\* mutant: the buffer is cleared and the sink is not called
mi_buffered_flush_Unsunk(b) == [b EXCEPT !.term = Max(@, Len(b.buf)), !.buf = ""]

\* buf->buf[buf->used] = 0; _mi_fputs(buf->out, buf->arg, NULL, buf->buf); buf->used = 0;
\* (term: the highest index the terminator was written at)
mi_buffered_flush(b) ==
  [b EXCEPT !.term = Max(@, Len(b.buf)), !.chunks = Append(@, b.buf), !.buf = ""]

\* mutant: the line terminator flushes the buffer before it is stored
PutChar_FlushFirst(b, c) ==
  LET b1 == IF Len(b.buf) >= b.count \/ c = "\n" THEN mi_buffered_flush(b) ELSE b
  IN [b1 EXCEPT !.buf = @ \o c]

\* mutant: the buffer is flushed one character before it is full
PutChar_Early(b, c) ==
  LET b1 == IF Len(b.buf) + 1 >= b.count THEN mi_buffered_flush(b) ELSE b
      b2 == [b1 EXCEPT !.hi = Max(@, Len(b1.buf)), !.buf = @ \o c]
  IN IF c = "\n" THEN mi_buffered_flush(b2) ELSE b2

\* mutant: the buffer is flushed only once used has passed count
PutChar_Late(b, c) ==
  LET b1 == IF Len(b.buf) > b.count THEN mi_buffered_flush(b) ELSE b
      b2 == [b1 EXCEPT !.hi = Max(@, Len(b1.buf)), !.buf = @ \o c]
  IN IF c = "\n" THEN mi_buffered_flush(b2) ELSE b2

\* mutant: a line terminator does not flush the buffer
PutChar_FullOnly(b, c) ==
  LET b1 == IF Len(b.buf) >= b.count THEN mi_buffered_flush(b) ELSE b
  IN [b1 EXCEPT !.hi = Max(@, Len(b1.buf)), !.buf = @ \o c]

\* the body of the loop of mi_buffered_out for the character c:
\* if (buf->used >= buf->count) mi_buffered_flush(buf);
\* buf->buf[buf->used++] = c; if (c == '\n') mi_buffered_flush(buf);
\* (hi: the highest index a character was stored at)
PutChar(b, c) ==
  LET b1 == IF Len(b.buf) >= b.count THEN mi_buffered_flush(b) ELSE b
      b2 == [b1 EXCEPT !.hi = Max(@, Len(b1.buf)), !.buf = @ \o c]
  IN IF c = "\n" THEN mi_buffered_flush(b2) ELSE b2

RECURSIVE mi_buffered_out(_, _, _)
\* mi_buffered_out(msg, arg): nothing for msg == NULL or buf == NULL (a probe with no
\* buffer), else every character of msg
mi_buffered_out(b, is_null, msg) ==
  IF is_null \/ b.op = "none" \/ Len(msg) = 0 THEN b
  ELSE mi_buffered_out(PutChar(b, SubSeq(msg, 1, 1)), FALSE, SubSeq(msg, 2, Len(msg)))

InitBuffered ==
  /\ InitProgram
  /\ hist = HistInit
  /\ probe = [op |-> "buffered", buf |-> "", count |-> BufferCount, chunks |-> <<>>,
              calls |-> 0, appended |-> "", hi |-> -1, term |-> -1]

\* one call of mi_buffered_out on the buffer
BufferedOut ==
  /\ probe.op = "buffered" /\ probe.calls < MaxFragments
  /\ \E is_null \in BOOLEAN, msg \in Fragments :
       probe' = [mi_buffered_out(probe, is_null, msg) EXCEPT
                   !.calls = @ + 1,
                   !.appended = IF is_null THEN @ ELSE @ \o msg]
  /\ UNCHANGED <<stats, pc, loc, snap, heap_queue, lock, wrapper, cb_last, mi_process_start,
                 clock, ops_left, hist, file, sink, result, minfo>>

NextBuffered == BufferedOut

SpecBuffered == InitBuffered /\ [][NextBuffered]_vars

\* the chunk ends with a line terminator and holds no other
OneLine(chunk) ==
  /\ Len(chunk) >= 1
  /\ \A i \in 1..Len(chunk) : (SubSeq(chunk, i, i) = "\n") <=> (i = Len(chunk))

\* C23: whatever fragments are passed to mi_buffered_out, every chunk handed to the
\* sink either ends with a line terminator and holds no other, or is exactly as long
\* as the capacity count of the buffer
C23_ChunksAreLines ==
  probe.op = "buffered" =>
    \A i \in 1..Len(probe.chunks) :
      OneLine(probe.chunks[i]) \/ Len(probe.chunks[i]) = probe.count

\* C23 is reached: a full buffer was flushed in the middle of a line, the rest of the
\* line followed as a chunk of its own, and a line shorter than the buffer was flushed
C23_Reached ==
  /\ probe.op = "buffered"
  /\ \E i \in 1..Len(probe.chunks) :
       /\ Len(probe.chunks[i]) = probe.count /\ ~OneLine(probe.chunks[i])
       /\ i < Len(probe.chunks) /\ OneLine(probe.chunks[i + 1])
  /\ \E i \in 1..Len(probe.chunks) :
       OneLine(probe.chunks[i]) /\ 1 < Len(probe.chunks[i]) /\ Len(probe.chunks[i]) < probe.count

\* ------------------------------------------------------------- mallinfo after allocations
\* the program with the history tallying the updates of the class normal
InitTally ==
  /\ InitState
  /\ minfo = [t \in Threads |-> NoMinfo]
  /\ ops_left = [update |-> MaxUpdates + 1, call |-> MaxCalls]
  /\ hist = [HistInit EXCEPT !.tally = TRUE]
  /\ probe = IdleProbe

\* allocations and frees on the heaps' own blocks, reservations on the GlobalBlock, and
\* calls of mi_stats_mallinfo
NextMallinfo ==
  \/ \E t \in Threads, a \in Amounts : mi_stat_increase(t, mi_stats_get_default(t), "normal", a)
  \/ \E t \in Threads, a \in Amounts : mi_stat_decrease(t, mi_stats_get_default(t), "normal", a)
  \/ \E t \in Threads, a \in Amounts : mi_stat_increase(t, Main, "reserved", a)
  \/ \E t \in Threads : mi_stat_update_peak(t)
  \/ \E t \in Threads : mi_stat_update_total(t)
  \/ \E t \in Threads, is_null \in BOOLEAN : mi_stats_mallinfo(t, is_null)
  \/ \E t \in Threads : MergeAddStep(t)
  \/ \E t \in Threads : MergeZeroStep(t)
  \/ \E t \in Threads : MallinfoStep(t)

SpecMallinfo == InitTally /\ [][NextMallinfo]_vars

\* C24: mi_stats_mallinfo with a result that is not NULL first folds the block of the
\* calling thread into the GlobalBlock; then reserved is read from reserved.allocated of
\* the GlobalBlock, mmap_calls from mmap_calls.count, allocated and freed from the
\* allocation classes of the GlobalBlock. What the caller allocated and freed on its
\* own block before the call is therefore included, and is all there is where no other
\* thread has allocated
C24_MallinfoIncludesOwn ==
  [][\A t \in Threads :
       LET own == mi_stats_get_default(t)
       IN /\ (pc[t] = "minfo_reserved" /\ pc'[t] = "minfo_mmap")
               => /\ stats[own] = ZeroStats
                  /\ minfo'[t].reserved = stats[Main]["reserved"].allocated
          /\ (pc[t] = "minfo_mmap" /\ pc'[t] = "minfo_chk")
               => minfo'[t].mmap_calls = stats[Main][MmapCalls].count
          /\ (pc[t] \in {"minfo_chk", "minfo_freed"} /\ pc'[t] = "idle")
               => /\ minfo'[t].filled
                  /\ stats'[own] = ZeroStats
                  /\ minfo'[t].allocated >= hist.ended[own].allocated
                  /\ minfo'[t].freed >= hist.ended[own].freed
                  /\ minfo'[t].allocated <= BegunAllocated
                  /\ (\A b \in Blocks \ {own} : hist.begun[b] = ZeroTally)
                       => /\ minfo'[t].allocated = hist.ended[own].allocated
                          /\ minfo'[t].freed = hist.ended[own].freed]_vars

\* C24 is reached: a call has returned what its caller allocated and freed on its own
\* block, while another thread holds an allocation the call does not count
C24_Reached ==
  \E t \in Threads :
    /\ pc[t] = "idle" /\ minfo[t].filled
    /\ minfo[t].allocated > 0 /\ minfo[t].freed > 0
    /\ minfo[t].allocated = hist.ended[mi_stats_get_default(t)].allocated
    /\ minfo[t].allocated < BegunAllocated

\* ------------------------------------------------------------- the allocation gate
\* the operations base_alloc_test runs in its thread while allocation is disabled
AllocOps == {"mi_malloc", "mi_calloc", "mi_valloc", "mi_realloc", "mi_free"}

\* the gate: the thread between mi_malloc_disable() and mi_malloc_enable(), 0 for none;
\* waited and released are history: the threads that called an operation while another
\* thread held the gate, and those of them whose operation has completed
NoGate == [op |-> "gate", holder |-> 0, waited |-> {}, released |-> {}]

InitGate ==
  /\ InitProgram
  /\ minfo = [t \in Threads |-> NoMinfo]
  /\ hist = HistInit
  /\ probe = NoGate

\* mutant: the operations do not look at the gate
GateOpen_Always(t) == TRUE

\* an allocation operation of thread t may proceed: allocation is not disabled by
\* another thread
GateOpen(t) == probe.holder \in {0, t}

\* mi_malloc_disable(): waits for the operations in progress, then holds the gate
mi_malloc_disable(t) ==
  /\ probe.op = "gate"
  /\ Begin(t, "call")
  /\ probe.holder = 0
  /\ \A u \in Threads \ {t} : pc[u] # "alloc_inside"
  /\ probe' = [probe EXCEPT !.holder = t]
  /\ UNCHANGED <<stats, pc, loc, snap, heap_queue, lock, wrapper, cb_last, mi_process_start,
                 clock, hist, file, sink, result, minfo>>

\* mi_malloc_enable()
mi_malloc_enable(t) ==
  /\ probe.op = "gate"
  /\ pc[t] = "idle"
  /\ probe.holder = t
  /\ probe' = [probe EXCEPT !.holder = 0]
  /\ UNCHANGED <<stats, pc, loc, snap, heap_queue, lock, wrapper, cb_last, mi_process_start,
                 clock, ops_left, hist, file, sink, result, minfo>>

\* fun() of base_alloc_test: the thread calls one of the operations
AllocCalled(t, op) ==
  /\ probe.op = "gate"
  /\ Begin(t, "update")
  /\ pc' = [pc EXCEPT ![t] = "alloc_called"]
  /\ loc' = [loc EXCEPT ![t] = [IdleLoc EXCEPT !.op = op]]
  /\ probe' = [probe EXCEPT !.waited = IF GateOpen(t) THEN @ ELSE @ \cup {t}]
  /\ UNCHANGED <<stats, snap, heap_queue, lock, wrapper, cb_last, mi_process_start,
                 clock, hist, file, sink, result, minfo>>

\* the operation passes the gate
AllocEnter(t) ==
  /\ pc[t] = "alloc_called"
  /\ GateOpen(t)
  /\ pc' = [pc EXCEPT ![t] = "alloc_inside"]
  /\ UNCHANGED <<stats, loc, snap, heap_queue, lock, wrapper, cb_last, mi_process_start,
                 clock, ops_left, hist, file, sink, result, minfo, probe>>

\* the operation completes: fun() returns
AllocComplete(t) ==
  /\ pc[t] = "alloc_inside"
  /\ Return(t)
  /\ probe' = [probe EXCEPT !.released = IF t \in probe.waited THEN @ \cup {t} ELSE @]
  /\ UNCHANGED <<stats, snap, heap_queue, lock, wrapper, cb_last, mi_process_start,
                 clock, ops_left, hist, file, sink, result, minfo>>

NextGate ==
  \/ \E t \in Threads : mi_malloc_disable(t)
  \/ \E t \in Threads : mi_malloc_enable(t)
  \/ \E t \in Threads, op \in AllocOps : AllocCalled(t, op)
  \/ \E t \in Threads : AllocEnter(t)
  \/ \E t \in Threads : AllocComplete(t)

SpecGate == InitGate /\ [][NextGate]_vars

InitOwn ==
  /\ InitState
  /\ minfo = [t \in Threads |-> NoMinfo]
  /\ ops_left = [update |-> MaxUpdates + 2, call |-> 1]
  /\ hist = [HistInit EXCEPT !.watch = TRUE, !.tally = TRUE]
  /\ probe = IdleProbe

\* allocations and frees on the heaps' own blocks, and what zeroes such a block: a
\* merge into the GlobalBlock, a reset
NextOwn ==
  \/ \E t \in Threads, a \in Amounts : mi_stat_increase(t, mi_stats_get_default(t), "normal", a)
  \/ \E t \in Threads, a \in Amounts : mi_stat_decrease(t, mi_stats_get_default(t), "normal", a)
  \/ \E t \in Threads : mi_stat_update_peak(t)
  \/ \E t \in Threads : mi_stat_update_total(t)
  \/ \E t \in Threads : mi_stats_merge(t)
  \/ \E t \in Threads : MergeAddStep(t)
  \/ \E t \in Threads : MergeZeroStep(t)
  \/ \E t \in Threads : mi_stats_reset(t)
  \/ \E t \in Threads : ResetStep(t)

SpecOwn == InitOwn /\ [][NextOwn]_vars

\* the counter the claim expects after an update by amount of the counter before
OwnUpdated(before, amount) ==
  IF amount > 0
    THEN [current |-> before.current + amount, allocated |-> before.allocated + amount,
          peak |-> Max(before.peak, before.current + amount), freed |-> before.freed]
    ELSE [current |-> before.current + amount, freed |-> before.freed - amount,
          allocated |-> before.allocated, peak |-> before.peak]

\* C26: an update of a SizeCounter of a heap's own block: an increase by a > 0 adds a
\* to current and to allocated, sets peak to the larger of peak and the new current and
\* leaves freed; a decrease by a subtracts a from current, adds a to freed and leaves
\* allocated and peak. So between updates peak is the largest value current has taken
\* since the block was last zeroed, or 0
C26_OwnBlockUpdate ==
  /\ [](\A t \in Threads :
         pc[t] \notin UpdatePcs
           => stats[mi_stats_get_default(t)]["normal"].peak = hist.high[mi_stats_get_default(t)])
  /\ [][\A t \in Threads :
          (pc[t] = "upd_total" /\ pc'[t] = "idle" /\ ~mi_is_in_main(loc[t].blk))
            => stats'[loc[t].blk][loc[t].ctr]
                 = OwnUpdated(hist.seen[loc[t].blk].counter, hist.seen[loc[t].blk].amount)]_vars

\* C26 is reached: on a block that was zeroed by a merge, current rose to 2 and fell
\* back to 1
C26_Reached ==
  \E t \in Threads :
    /\ pc[t] = "idle" /\ t \in hist.mergers
    /\ stats[mi_stats_get_default(t)]["normal"]
         = [current |-> 1, allocated |-> 2, freed |-> 1, peak |-> 2]

\* ------------------------------------------------------------- the early exit of mi_stat_add
\* thread t is at the early exit of mi_stat_add, in a merge or in a global snapshot,
\* and the counter of the source block has nothing allocated and nothing freed
AtSkip(t) ==
  /\ pc[t] \in {"merge_add", "snap_add"}
  /\ AddSteps[loc[t].k].f = "chk"
  /\ mi_stat_add_skips(stats[loc[t].blk][AddSteps[loc[t].k].ctr])

\* a step of mi_stats_add by thread t that is not an early exit adds the field of the
\* source block to the field of the destination
AddsField(t) ==
  LET c == AddSteps[loc[t].k].ctr
      f == AddSteps[loc[t].k].f
  IN (pc[t] \in {"merge_add", "snap_add"} /\ f # "chk" /\ <<pc[t], loc[t]>> # <<pc'[t], loc'[t]>>)
       => IF pc[t] = "merge_add"
            THEN stats'[Main][c][f] = stats[Main][c][f] + stats[loc[t].blk][c][f]
            ELSE snap'[t][c][f] = snap[t][c][f] + stats[loc[t].blk][c][f]

\* C27: for every source block that updates, merges and resets can produce,
\* mi_stats_add(dst, src) with dst # src adds each field of each SizeCounter
\* (allocated, current, freed, peak) and of each FlowCounter (total, count) to dst;
\* its early exit for a counter with allocated = 0 and freed = 0 never drops a current
\* or a peak that is not zero
C27_AddDropsNothing ==
  /\ [](\A t \in Threads :
         AtSkip(t) => /\ stats[loc[t].blk][AddSteps[loc[t].k].ctr].current = 0
                      /\ stats[loc[t].blk][AddSteps[loc[t].k].ctr].peak = 0)
  /\ [][\A t \in Threads : AddsField(t)]_vars

\* updates of the heaps' own blocks, merges, thread exits, resets and global snapshots
NextFold ==
  \/ \E t \in Threads : HeapAllocCall(t)
  \/ \E t \in Threads : UpdateStep(t)
  \/ \E t \in Threads : mi_stats_merge(t)
  \/ \E t \in Threads : mi_stats_done(t)
  \/ \E t \in Threads : MergeStep(t)
  \/ \E t \in Threads : mi_stats_reset(t)
  \/ \E t \in Threads : ResetStep(t)
  \/ \E t \in Threads : \E a \in PrintArgs(t) : mi_malloc_stats_print(t, a.cb, a.opq)
  \/ \E t \in Threads : PrintStep(t)

SpecFold == Init /\ [][NextFold]_vars

\* C27 as amended: where a thread folds its own block into the GlobalBlock
\* (mi_stats_merge_from), every step of mi_stats_add that is not an early exit adds the
\* field of the source, and the early exit never drops a current or a peak that is not
\* zero; in a global snapshot every such step adds the field it reads, but the early
\* exit may skip a counter another thread is updating
C27_OwnFoldDropsNothing ==
  /\ [](\A t \in Threads : \A c \in SetOf(SizeNames) :
         (pc[t] \in {"idle", "merge_add"} /\ mi_stat_add_skips(stats[mi_stats_get_default(t)][c]))
           => /\ stats[mi_stats_get_default(t)][c].current = 0
              /\ stats[mi_stats_get_default(t)][c].peak = 0)
  /\ [][\A t \in Threads : AddsField(t)]_vars

\* C27 is reached: a thread folds its own block and stands at the early exit for a
\* counter with nothing allocated and nothing freed, in a block that holds counts
C27_Reached ==
  \E t \in Threads :
    /\ AtSkip(t) /\ pc[t] = "merge_add"
    /\ stats[loc[t].blk]["normal_count"].count > 0

\* ------------------------------------------------------------- merges amid live updates
InitLive ==
  /\ InitState
  /\ minfo = [t \in Threads |-> NoMinfo]
  /\ ops_left = [update |-> MaxUpdates + 1, call |-> MaxCalls]
  /\ hist = HistInit
  /\ probe = IdleProbe

\* allocations and frees counted on the GlobalBlock or on the own block, merges and
\* thread exits
NextLive ==
  \/ \E t \in Threads : AllocCall(t)
  \/ \E t \in Threads : UpdateStep(t)
  \/ \E t \in Threads : mi_stats_merge(t)
  \/ \E t \in Threads : mi_stats_done(t)
  \/ \E t \in Threads : MergeStep(t)

SpecLive == InitLive /\ [][NextLive]_vars

\* C28: a merge into the GlobalBlock that runs while other threads update the
\* GlobalBlock and while other threads merge loses nothing: once all of them have
\* completed, allocated, freed and current of every counter of the GlobalBlock are the
\* initial value (zero) plus every merged source value plus every amount of a direct
\* update, in every interleaving
C28_MergeAmidUpdates ==
  Quiescent =>
    \A c \in SetOf(SizeNames) :
      /\ stats[Main][c].allocated = hist.merged[c].allocated + hist.inc[c]
      /\ stats[Main][c].freed = hist.merged[c].freed + hist.dec[c]
      /\ stats[Main][c].current = hist.merged[c].current + hist.inc[c] - hist.dec[c]

\* C28 is reached: both threads have merged a block that held an allocation, the
\* GlobalBlock was updated directly as well, and all have completed
C28_Reached ==
  /\ Quiescent
  /\ hist.mergers = Threads
  /\ hist.merged["normal"].allocated = 2
  /\ hist.inc["normal"] > 0
  /\ stats[Main]["normal"].allocated = 3

\* ------------------------------------------------------------- snapshots amid merges
\* allocations and frees on the heaps' own blocks, merges of the own block, thread
\* exits and global snapshots
NextWalk ==
  \/ \E t \in Threads, a \in Amounts : mi_stat_increase(t, mi_stats_get_default(t), "normal", a)
  \/ \E t \in Threads, a \in Amounts : mi_stat_decrease(t, mi_stats_get_default(t), "normal", a)
  \/ \E t \in Threads : mi_stat_update_peak(t)
  \/ \E t \in Threads : mi_stat_update_total(t)
  \/ \E t \in Threads : mi_stats_merge(t)
  \/ \E t \in Threads : mi_stats_done(t)
  \/ \E t \in Threads : MergeStep(t)
  \/ \E t \in Threads : \E a \in PrintArgs(t) : mi_malloc_stats_print(t, a.cb, a.opq)
  \/ \E t \in Threads : PrintStep(t)

InitWalk ==
  /\ InitProgram
  /\ minfo = [t \in Threads |-> NoMinfo]
  /\ hist = [HistInit EXCEPT !.tally = TRUE]
  /\ probe = IdleProbe

SpecWalk == InitWalk /\ [][NextWalk]_vars

\* C29: a global snapshot counts the contribution of a thread once: its allocated lies
\* between what the updates completed before the snapshot started have recorded and
\* what the updates started before it ended have recorded, also when a thread merges
\* its own block (mi_stats_merge, thread exit) during the walk
C29_SnapshotCountsOnce ==
  \A t \in Threads :
    pc[t] = "snap_unlock" =>
      /\ hist.floor[t] <= snap[t]["normal"].allocated
      /\ snap[t]["normal"].allocated <= BegunAllocated

\* ------------------------------------------------------------- merging twice
\* thread t takes a step of the merge it is in
MergeStepBy(t) == pc[t] \in MergePcs /\ <<pc[t], loc[t]>> # <<pc'[t], loc'[t]>>

\* C30: mi_stats_merge_from(src) with src other than the GlobalBlock leaves every field
\* of src zero; a second merge of the same block, with no update in between, finds it
\* zero and changes nothing in the GlobalBlock, so merging twice changes the
\* GlobalBlock exactly as merging once
C30_MergeTwiceAsOnce ==
  [][\A t \in Threads :
       /\ (pc[t] = "merge_zero" /\ MergeStepBy(t)) => stats'[loc[t].blk] = ZeroStats
       /\ (MergeStepBy(t) /\ stats[loc[t].blk] = ZeroStats)
            => /\ stats'[Main] = stats[Main]
               /\ stats'[loc[t].blk] = ZeroStats
       /\ (pc[t] = "idle" /\ pc'[t] = "merge_add" /\ stats[mi_stats_get_default(t)] = ZeroStats)
            => stats' = stats]_vars

\* C30 is reached: a thread that has merged a block with allocations merges it again,
\* the block being zero, and the GlobalBlock holds what was merged
C30_Reached ==
  \E t \in Threads :
    /\ t \in hist.mergers
    /\ pc[t] = "merge_zero"
    /\ stats[loc[t].blk] = ZeroStats
    /\ Cardinality(hist.mergers) = 1
    /\ stats[Main] = hist.merged
    /\ stats[Main]["normal"].allocated > 0

\* ------------------------------------------------------------- merging a block into itself
\* mutant: the test for equal pointers is gone
SamePlace_Never(dst, src) == FALSE

\* if (stat==src) return;  |  if (stats==src) return;
SamePlace(dst, src) == dst = src

\* mi_stat_add(&st[dst].c, &st[src].c, 1) as a whole: the stores in program order, each
\* reading the source as the stores before it have left it
mi_stat_add(st, dst, src, c) ==
  IF SamePlace(dst, src) THEN st
  ELSE IF mi_stat_add_skips(st[src][c]) THEN st
  ELSE LET s1 == [st EXCEPT ![dst][c].allocated = mi_stat_add_field(@, st[src][c].allocated, 1)]
           s2 == [s1 EXCEPT ![dst][c].current = mi_stat_add_field(@, s1[src][c].current, 1)]
           s3 == [s2 EXCEPT ![dst][c].freed = mi_stat_add_field(@, s2[src][c].freed, 1)]
       IN [s3 EXCEPT ![dst][c].peak = mi_stat_add_field(@, s3[src][c].peak, 1)]

\* mi_stat_counter_add(&st[dst].c, &st[src].c, 1) as a whole
mi_stat_counter_add(st, dst, src, c) ==
  IF SamePlace(dst, src) THEN st
  ELSE LET s1 == [st EXCEPT ![dst][c].total = mi_stat_add_field(@, st[src][c].total, 1)]
       IN [s1 EXCEPT ![dst][c].count = mi_stat_add_field(@, s1[src][c].count, 1)]

RECURSIVE AddFrom(_, _, _, _)
\* the calls k, k + 1, ... of mi_stats_add, in the order of AddSteps
AddFrom(st, dst, src, k) ==
  IF k > Len(AddSteps) THEN st
  ELSE LET c == AddSteps[k].ctr
       IN CASE AddSteps[k].f = "chk" -> AddFrom(mi_stat_add(st, dst, src, c), dst, src, k + 1)
            [] AddSteps[k].f = "total" ->
                 AddFrom(mi_stat_counter_add(st, dst, src, c), dst, src, k + 1)
            [] OTHER -> AddFrom(st, dst, src, k + 1)

\* mi_stats_add(&st[dst], &st[src]) as a whole
mi_stats_add(st, dst, src) == IF SamePlace(dst, src) THEN st ELSE AddFrom(st, dst, src, 1)

\* no call has been made on a pair of blocks
NoPair == [op |-> "pair", n |-> 0, call |-> "none", dst |-> Main, src |-> Main, ctr |-> "none"]

\* blocks that hold allocations, before calls on pairs of them
InitPair ==
  /\ InitProgram
  /\ minfo = [t \in Threads |-> NoMinfo]
  /\ hist = HistInit
  /\ probe \in {[NoPair EXCEPT !.dst = b] : b \in Blocks}

\* the blocks are filled once, from the sample blocks
PairFill ==
  /\ probe.op = "pair" /\ probe.n = 0 /\ probe.call = "none"
  /\ \E blk \in SampleBlocks :
       stats' = [stats EXCEPT ![probe.dst] = blk, ![Main] = AfterAllocs(1, 8, 0)]
  /\ probe' = [probe EXCEPT !.call = "filled"]
  /\ UNCHANGED <<pc, loc, snap, heap_queue, lock, wrapper, cb_last, mi_process_start,
                 clock, ops_left, hist, file, sink, result, minfo>>

\* one call of mi_stats_add, mi_stat_add or mi_stat_counter_add on a pair of blocks
PairCall(t, call, dst, src, c) ==
  /\ probe.op = "pair" /\ probe.call # "none"
  /\ Begin(t, "call")
  /\ stats' = CASE call = "mi_stats_add" -> mi_stats_add(stats, dst, src)
                 [] call = "mi_stat_add" -> mi_stat_add(stats, dst, src, c)
                 [] OTHER -> mi_stat_counter_add(stats, dst, src, c)
  /\ probe' = [probe EXCEPT !.n = @ + 1, !.call = call, !.dst = dst, !.src = src, !.ctr = c]
  /\ UNCHANGED <<pc, loc, snap, heap_queue, lock, wrapper, cb_last, mi_process_start,
                 clock, hist, file, sink, result, minfo>>

\* mi_stats_merge_from(&_mi_stats_main)
MergeFromMain(t) ==
  /\ probe.op = "pair" /\ probe.call # "none"
  /\ mi_stats_merge_from(t, Main, "merge")

NextPair ==
  \/ PairFill
  \/ \E t \in Threads, dst \in Blocks, src \in Blocks : PairCall(t, "mi_stats_add", dst, src, "none")
  \/ \E t \in Threads, dst \in Blocks, src \in Blocks, c \in SetOf(SizeNames) :
       PairCall(t, "mi_stat_add", dst, src, c)
  \/ \E t \in Threads, dst \in Blocks, src \in Blocks, c \in SetOf(FlowNames) :
       PairCall(t, "mi_stat_counter_add", dst, src, c)
  \/ \E t \in Threads : MergeFromMain(t)

SpecPair == InitPair /\ [][NextPair]_vars

\* C31: merging a block into itself changes nothing: mi_stats_add(b, b), mi_stat_add(c, c)
\* and mi_stat_counter_add(c, c) leave every field as it was, and
\* mi_stats_merge_from(&_mi_stats_main) neither adds to the GlobalBlock nor zeroes it
C31_SelfMergeIsNoOp ==
  [][/\ (probe'.n # probe.n /\ probe'.dst = probe'.src) => stats' = stats
     /\ (probe' = probe /\ ops_left' # ops_left) => (stats' = stats /\ pc' = pc)]_vars

\* C31 is reached: a call on a block and itself has returned, the block holding
\* allocations and counts, and the GlobalBlock is not zero
C31_Reached ==
  /\ probe.op = "pair" /\ probe.n > 0
  /\ probe.dst = probe.src
  /\ stats[probe.dst]["normal"].allocated > 0
  /\ stats[probe.dst]["normal_count"].count > 0
  /\ stats[Main]["normal"].allocated > 0
  /\ ops_left.call = 0

\* ------------------------------------------------------------- the line buffer, continued
\* C32: the line buffer neither loses, duplicates nor reorders characters: after any
\* sequence of mi_buffered_out calls the chunks delivered so far, followed by the
\* content buf[0..used) of the buffer, are the fragments appended so far
C32_BufferKeepsCharacters ==
  probe.op = "buffered" => Concat(probe.chunks) \o probe.buf = probe.appended

\* C32 is reached: several chunks were delivered, one of them by a full buffer, and
\* characters are still waiting in the buffer
C32_Reached ==
  /\ probe.op = "buffered"
  /\ Len(probe.chunks) >= 2
  /\ \E i \in 1..Len(probe.chunks) : ~OneLine(probe.chunks[i])
  /\ Len(probe.buf) > 0
  /\ Len(probe.appended) > probe.count + 1

\* the fragment passed by the call that has just returned
LastFragment == SubSeq(probe'.appended, Len(probe.appended) + 1, Len(probe'.appended))

\* the fragment of the call is longer than the room left in the buffer
Overlong == probe.op = "buffered" /\ Len(LastFragment) > probe.count - Len(probe.buf)

\* the first chunk the call has delivered
FirstChunk == probe'.chunks[Len(probe.chunks) + 1]

C34_BufferWithinBounds ==
  probe.op = "buffered" =>
    /\ Len(probe.buf) <= probe.count
    /\ probe.hi < probe.count
    /\ probe.term <= probe.count
    /\ \A i \in 1..Len(probe.chunks) : Len(probe.chunks[i]) >= 1

\* C34 is reached: the buffer is full again after a full buffer was flushed
C34_Reached ==
  /\ probe.op = "buffered"
  /\ Len(probe.buf) = probe.count
  /\ probe.hi = probe.count - 1
  /\ probe.term = probe.count
  /\ Len(probe.chunks) >= 1

\* ------------------------------------------------------------- a render pass through the line buffer
\* buffered_t buffer = { out0, arg0, NULL, 0, 255 } of _mi_stats_print, and
\* XML_STATS_PRINT_BUFFERED_COUNT of mi_stats_print_xml
StatsPrintBufferedCount == 255

\* a line of the markup report as _mi_fprintf formats it: "<%s%s>\n", "</%s>\n",
\* "<%s>%%s</%s>\n"
TokenText(tok) ==
  CASE tok.k = "open" -> "<" \o tok.name \o (IF tok.text = "" THEN "" ELSE " " \o tok.text) \o ">\n"
    [] tok.k = "close" -> "</" \o tok.name \o ">\n"
    [] tok.k = "leaf" -> "<" \o tok.name \o ">" \o tok.text \o "</" \o tok.name \o ">\n"
    [] OTHER -> "<?xml version=\"1.0\"?>\n"

\* the peak resident set sizes and peak commits mi_stat_process_info reports
ProcessPeaks == {0, 1, 2048}

\* the end of _mi_stats_print: the NUMA nodes, the elapsed time, and the line of the
\* process, which is passed in fragments and closed by a "\n" of its own (times of 0 ms)
TableTail(peak_rss, peak_commit) ==
  <<PadLeft("numa nodes", 10) \o ": " \o PadLeft("1", 7) \o "\n",
    PadLeft("elapsed", 10) \o ": " \o PadLeft("0", 7) \o ".000 s\n",
    PadLeft("process", 10) \o ": user: 0.000 s, system: 0.000 s, faults: 0, rss: ",
    mi_printf_amount(peak_rss, 1, TABLE)>>
  \o (IF peak_commit > 0 THEN <<", commit: ", mi_printf_amount(peak_commit, 1, TABLE)>> ELSE <<>>)
  \o <<"\n">>

\* the end of mi_stats_print_xml: the NUMA nodes and mi_stats_print_process_info_xml
mi_stats_print_process_info_xml(peak_rss, peak_commit) ==
  <<Leaf("numa_nodes", "1"), Leaf("elapsed", "0.000 s"), Open("process"),
    Leaf("user", "0.000 s"), Leaf("system", "0.000 s"), Leaf("faults", "0")>>
  \o mi_print_amount_xml("rss", peak_rss, 1)
  \o (IF peak_commit > 0 THEN mi_print_amount_xml("commit", peak_commit, 1) ELSE <<>>)
  \o <<Close("process")>>

\* the strings a render pass hands to mi_buffered_out, in order (a row of the table
\* is passed in several pieces; the loop of mi_buffered_out works per character)
PassFragments(mode, s, peak_rss, peak_commit) ==
  IF mode = TABLE
    THEN [i \in 1..4 |-> TableLine(s, i)] \o TableTail(peak_rss, peak_commit)
    ELSE LET tokens == mi_stats_print_xml(s)
                       \o mi_stats_print_process_info_xml(peak_rss, peak_commit)
         IN [i \in 1..Len(tokens) |-> TokenText(tokens[i])]

\* a renderer about to start on a block, its line buffer empty
InitPass ==
  /\ InitProgram
  /\ hist = HistInit
  /\ probe \in [op : {"pass"}, buf : {""}, count : {BufferCount, StatsPrintBufferedCount},
                chunks : {<<>>}, hi : {-1}, term : {-1}, mode : {TABLE, XML},
                blk : SampleBlocks, peak_rss : ProcessPeaks, peak_commit : ProcessPeaks,
                i : {0}, returned : {FALSE}]

\* the next _mi_fprintf(out, arg, ...) of the pass, out being mi_buffered_out; the
\* renderer returns after the last
PassOut ==
  /\ probe.op = "pass" /\ ~probe.returned
  /\ LET frags == PassFragments(probe.mode, probe.blk, probe.peak_rss, probe.peak_commit)
     IN probe' = [mi_buffered_out(probe, FALSE, frags[probe.i + 1]) EXCEPT
                    !.i = @ + 1, !.returned = (probe.i + 1 = Len(frags))]
  /\ UNCHANGED <<stats, pc, loc, snap, heap_queue, lock, wrapper, cb_last, mi_process_start,
                 clock, ops_left, hist, file, sink, result, minfo>>

NextPass == PassOut

SpecPass == InitPass /\ [][NextPass]_vars

RECURSIVE Joined(_)
\* the strings of a sequence, one after the other
Joined(strs) ==
  IF Len(strs) = 0 THEN ""
  ELSE IF Len(strs) = 1 THEN strs[1]
  ELSE LET half == Len(strs) \div 2
       IN Joined(SubSeq(strs, 1, half)) \o Joined(SubSeq(strs, half + 1, Len(strs)))

\* C35: when a render pass (_mi_stats_print or mi_stats_print_xml) returns, the line
\* buffer is empty (used == 0): every character rendered has been delivered, although
\* no final flush is made
C35_PassLeavesBufferEmpty ==
  (probe.op = "pass" /\ probe.returned) =>
    /\ probe.buf = ""
    /\ Joined(probe.chunks) =
         Joined(PassFragments(probe.mode, probe.blk, probe.peak_rss, probe.peak_commit))

\* C35 is reached: a table pass has returned whose last line came in pieces, the
\* last of them the line terminator alone, through a buffer that filled on the way
C35_Reached ==
  /\ probe.op = "pass" /\ probe.returned
  /\ probe.mode = TABLE /\ probe.peak_commit > 0
  /\ probe.count = BufferCount
  /\ probe.term = probe.count
  /\ Len(probe.chunks[Len(probe.chunks)]) < probe.count

\* C35 is reached for the markup renderer too
C35_ReachedMarkup ==
  /\ probe.op = "pass" /\ probe.returned
  /\ probe.mode = XML /\ probe.count = StatsPrintBufferedCount
  /\ probe.blk["normal"].allocated > 0

\* ------------------------------------------------------------- the order of the two renderers
\* the values of MI_STAT: no statistics, the counters, the counters with the bins
StatLevels == {0, 1, 2}

\* mi_print_allocations, for both renderers: the classes, then their total
mi_print_allocations_order == <<"normal", "large", "huge", "total">>

\* the fields of mi_stats_t in the order _mi_stats_print renders them (after the header);
\* the bins and malloc under MI_STAT > 1, the allocations under MI_STAT
TableOrder(mi_stat) ==
  (IF mi_stat > 1 THEN <<"normal_bins">> ELSE <<>>)
  \o (IF mi_stat > 0 THEN mi_print_allocations_order ELSE <<>>)
  \o (IF mi_stat > 1 THEN <<"malloc">> ELSE <<>>)
  \o <<"reserved", "committed", "reset", "page_committed", "segments", "segments_abandoned",
       "segments_cache", "pages", "pages_abandoned", "pages_extended", "page_no_retire",
       "mmap_calls", "commit_calls", "threads", "searches", "numa_nodes", "process_info">>

\* mi_stats_print_segments_xml
mi_stats_print_segments_xml_order == <<"segments", "segments_abandoned", "segments_cache">>

\* mutant: the two counters of the pages change places
mi_stats_print_pages_xml_order_Swapped ==
  <<"pages", "pages_abandoned", "page_no_retire", "pages_extended">>

\* mi_stats_print_pages_xml
mi_stats_print_pages_xml_order ==
  <<"pages", "pages_abandoned", "pages_extended", "page_no_retire">>

\* the fields of mi_stats_t in the order mi_stats_print_xml renders them
MarkupOrder(mi_stat) ==
  (IF mi_stat > 1 THEN <<"normal_bins">> ELSE <<>>)
  \o (IF mi_stat > 0 THEN mi_print_allocations_order ELSE <<>>)
  \o (IF mi_stat > 1 THEN <<"malloc">> ELSE <<>>)
  \o <<"reserved", "committed", "reset", "page_committed">>
  \o mi_stats_print_segments_xml_order
  \o mi_stats_print_pages_xml_order
  \o <<"mmap_calls", "commit_calls", "threads", "searches", "numa_nodes", "process_info">>

\* the two renderers about to start on a block, under one value of MI_STAT
InitOrder ==
  /\ InitProgram
  /\ hist = HistInit
  /\ probe \in [op : {"order"}, mi_stat : StatLevels, table : {<<>>}, markup : {<<>>}]

\* _mi_stats_print renders its next field
TableVisit ==
  /\ probe.op = "order"
  /\ Len(probe.table) < Len(TableOrder(probe.mi_stat))
  /\ probe' = [probe EXCEPT !.table = Append(@, TableOrder(probe.mi_stat)[Len(@) + 1])]
  /\ UNCHANGED <<stats, pc, loc, snap, heap_queue, lock, wrapper, cb_last, mi_process_start,
                 clock, ops_left, hist, file, sink, result, minfo>>

\* mi_stats_print_xml renders its next field
MarkupVisit ==
  /\ probe.op = "order"
  /\ Len(probe.markup) < Len(MarkupOrder(probe.mi_stat))
  /\ probe' = [probe EXCEPT !.markup = Append(@, MarkupOrder(probe.mi_stat)[Len(@) + 1])]
  /\ UNCHANGED <<stats, pc, loc, snap, heap_queue, lock, wrapper, cb_last, mi_process_start,
                 clock, ops_left, hist, file, sink, result, minfo>>

NextOrder == TableVisit \/ MarkupVisit

SpecOrder == InitOrder /\ [][NextOrder]_vars

\* both renderers have returned
BothRendered ==
  /\ probe.op = "order"
  /\ Len(probe.table) = Len(TableOrder(probe.mi_stat))
  /\ Len(probe.markup) = Len(MarkupOrder(probe.mi_stat))

\* C36: the table renderer and the markup renderer visit the counters in the same
\* order: bins, normal, large, huge, total, malloc requests, reserved, committed,
\* reset, touched, segments (abandoned, cached), pages (abandoned, extended,
\* no-retire), mmap calls, commit calls, threads, searches, NUMA nodes, process info;
\* no counter is rendered by one and skipped by the other
C36_SameOrder ==
  probe.op = "order" =>
    /\ \A i \in 1..Len(probe.table) :
         i <= Len(probe.markup) => probe.table[i] = probe.markup[i]
    /\ BothRendered => probe.table = probe.markup
    /\ (BothRendered /\ probe.mi_stat = 2) =>
         probe.markup = <<"normal_bins", "normal", "large", "huge", "total", "malloc",
                          "reserved", "committed", "reset", "page_committed", "segments",
                          "segments_abandoned", "segments_cache", "pages", "pages_abandoned",
                          "pages_extended", "page_no_retire", "mmap_calls", "commit_calls",
                          "threads", "searches", "numa_nodes", "process_info">>

\* C36 is reached: both renderers have gone through all the fields, bins included
C36_Reached == BothRendered /\ probe.mi_stat = 2 /\ Len(probe.table) = 23

\* ------------------------------------------------------------- the elements of the markup report
\* markup reports while threads exit
NextInfo ==
  \/ \E t \in Threads, o \in InfoOptions : mi_malloc_info(t, o)
  \/ \E t \in Threads : InfoStep(t)
  \/ \E t \in Threads : mi_stats_done(t)
  \/ \E t \in Threads : MergeStep(t)

SpecInfo == InitMarkup /\ [][NextInfo]_vars

\* the attributes of the heap elements written so far, in order
HeapElements(f) ==
  LET opened == SelectSeq(f, LAMBDA x : x.k = "open" /\ x.name = "heap")
  IN [i \in 1..Len(opened) |-> opened[i].text]

\* the number of tags of a kind and a name
TagCount(f, kind, name) == Len(SelectSeq(f, LAMBDA x : x.k = kind /\ x.name = name))

\* the first i heaps of the list, as the attributes of their elements
ListedHeaps(i) == [j \in 1..i |-> HeapAttrs(heap_queue[j])]

\* C37: mi_malloc_info(0, fp) emits exactly one element for the GlobalBlock
\* (stats_main) and exactly one heap element, carrying that heap's thread id, for each
\* heap of the list of live heaps, in list order, all inside the single document
\* element; the list is walked entirely under the lock of the heap queue
C37_OneElementPerHeap ==
  \A t \in Threads :
    /\ pc[t] \in {"info_main", "info_heap", "info_unlock"} => lock = t
    /\ pc[t] = "info_heap" =>
         /\ HeapElements(file[t]) = ListedHeaps(loc[t].hp - 1)
         /\ TagCount(file[t], "open", "stats_main") = 1
    /\ pc[t] = "info_unlock" =>
         /\ HeapElements(file[t]) = ListedHeaps(Len(heap_queue))
         /\ TagCount(file[t], "open", "stats_main") = 1
    /\ (result[t].returned /\ result[t].ret = 0) =>
         /\ TagCount(file[t], "open", "stats_main") = 1
         /\ TagCount(file[t], "close", "stats_main") = 1
         /\ TagCount(file[t], "close", "heap") = Len(HeapElements(file[t]))
         /\ \A i, j \in 1..Len(HeapElements(file[t])) :
              i # j => HeapElements(file[t])[i] # HeapElements(file[t])[j]
         /\ file[t][3] = Open("stats_main")
         /\ TagCount(file[t], "open", "malloc") = 1
         /\ file[t][2].name = "malloc"
         /\ file[t][Len(file[t])] = Close("malloc")

\* C37 is reached: a report of the GlobalBlock and of the heaps of two threads has
\* returned, after which one of the threads has exited
C37_Reached ==
  \E t \in Threads :
    /\ result[t].returned /\ result[t].ret = 0
    /\ HeapElements(file[t]) = <<HeapAttrs(1), HeapAttrs(2)>>
    /\ Len(heap_queue) = 1

\* ------------------------------------------------------------- the lock of the heap queue
\* where a thread is between _mi_heap_lock_heap_queue() and _mi_heap_unlock_heap_queue()
LockedSections == {"snap_add", "snap_unlock", "info_main", "info_heap", "info_unlock"}

\* C39: every acquisition of the lock of the heap queue in the reporting entrypoints is
\* followed by its release on every path: when mi_malloc_stats_print or mi_malloc_info
\* returns, the error return for invalid options included, the calling thread does not
\* hold the lock, and no thread acquires it twice without releasing it in between
C39_LockReleased ==
  \A t \in Threads :
    /\ lock = t => pc[t] \in LockedSections
    /\ pc[t] \in {"idle", "info_lock"} => lock # t
    /\ result[t].returned => pc[t] \notin {"info_lock", "info_main", "info_heap", "info_unlock"}

\* C39 is reached: a table report and a markup report have both taken the lock and
\* returned, and the lock is free
C39_Reached ==
  /\ lock = 0
  /\ \E t \in Threads : pc[t] = "idle" /\ result[t].returned /\ result[t].ret = 0
  /\ \E u \in Threads : pc[u] = "idle" /\ cb_last[u].n = RenderLines

\* ------------------------------------------------------------- reports that fold the caller's block
\* mi_stats_print_out(out, arg): mi_stats_merge_from(mi_stats_get_default()), then
\* _mi_stats_print(&_mi_stats_main, out, arg); out is NULL here
mi_stats_print_out(t) == mi_stats_merge_from(t, mi_stats_get_default(t), "print_out")

\* _mi_stats_print(&_mi_stats_main, out, arg) of mi_stats_print_out: the lines of the
\* GlobalBlock go to the sink, and the function returns
PrintOutRender(t) ==
  /\ pc[t] = "out_render"
  /\ sink' = [sink EXCEPT ![t] =
                 [to |-> SinkOf(0),
                  text |-> [i \in 1..RenderLines |-> TableLine(stats[Main], i)]]]
  /\ Return(t)
  /\ UNCHANGED <<stats, snap, heap_queue, lock, wrapper, cb_last, mi_process_start, clock,
                 ops_left, hist, file, result, minfo, probe>>

\* mi_thread_stats_print_out(out, arg): _mi_stats_print(mi_stats_get_default(), out, arg)
mi_thread_stats_print_out(t) ==
  /\ Begin(t, "call")
  /\ sink' = [sink EXCEPT ![t] =
                 [to |-> SinkOf(0),
                  text |-> [i \in 1..RenderLines |->
                             TableLine(stats[mi_stats_get_default(t)], i)]]]
  /\ UNCHANGED <<stats, pc, loc, snap, heap_queue, lock, wrapper, cb_last, mi_process_start,
                 clock, hist, file, result, minfo, probe>>

\* blocks that hold allocations, all heaps alive; the blocks are remembered
InitMove ==
  /\ stats \in [Blocks -> SampleBlocks]
  /\ heap_queue = [i \in 1..CONCURRENT_THREADS_COUNT |-> i]
  /\ pc = [t \in Threads |-> "idle"]
  /\ loc = [t \in Threads |-> IdleLoc]
  /\ snap = [t \in Threads |-> ZeroStats]
  /\ lock = 0
  /\ wrapper = [s \in {0} \cup Threads |-> [write_cb |-> 0, arg |-> 0]]
  /\ cb_last = [t \in Threads |-> NoSinkCall]
  /\ mi_process_start = 0
  /\ clock = 0
  /\ file = [t \in Threads |-> <<>>]
  /\ sink = [t \in Threads |-> NoText]
  /\ result = [t \in Threads |-> NoResult]
  /\ minfo = [t \in Threads |-> NoMinfo]
  /\ ops_left = [update |-> 0, call |-> MaxCalls]
  /\ hist = HistInit
  /\ probe = [op |-> "move", first |-> stats]

NextMove ==
  \/ \E t \in Threads : mi_stats_print_out(t)
  \/ \E t \in Threads, is_null \in BOOLEAN : mi_stats_mallinfo(t, is_null)
  \/ \E t \in Threads : mi_thread_stats_print_out(t)
  \/ \E t \in Threads : MergeAddStep(t)
  \/ \E t \in Threads : MergeZeroStep(t)
  \/ \E t \in Threads : MallinfoStep(t)
  \/ \E t \in Threads : PrintOutRender(t)

SpecMove == InitMove /\ [][NextMove]_vars

RECURSIVE SumOfBlocks(_, _)
\* the blocks 0..n of st, added field by field
SumOfBlocks(st, n) == IF n = 0 THEN st[Main] ELSE BlockSum(SumOfBlocks(st, n - 1), st[n])

\* where a thread is once mi_stats_merge_from has returned into its caller
AfterFold == {"out_render", "minfo_reserved", "minfo_mmap", "minfo_chk", "minfo_allocated",
              "minfo_freed"}

\* C40: mi_stats_print_out and mi_stats_mallinfo only move counts from the block of the
\* calling thread into the GlobalBlock: with the blocks of the other heaps unchanged,
\* the sum of the GlobalBlock and the caller's block is in every field the same after
\* the call as before, and the caller's block is all zero afterwards;
\* mi_stats_mallinfo(NULL) changes nothing, and mi_thread_stats_print_out changes no block
C40_ReportsOnlyMove ==
  /\ [](probe.op = "move" =>
          /\ Quiescent =>
               SumOfBlocks(stats, CONCURRENT_THREADS_COUNT)
                 = SumOfBlocks(probe.first, CONCURRENT_THREADS_COUNT)
          /\ \A t \in Threads : pc[t] \in AfterFold => stats[t] = ZeroStats)
  /\ [][probe.op = "move" =>
          /\ \A t \in Threads :
               /\ stats'[t] # stats[t] => (pc[t] = "merge_zero" /\ pc'[t] # pc[t])
               /\ (pc[t] \in AfterFold /\ pc'[t] = "idle") => stats'[t] = ZeroStats
          /\ (pc' = pc /\ loc' = loc) => stats' = stats]_vars

\* C40 is reached: one thread has returned from mi_stats_mallinfo and the other from
\* mi_stats_print_out, both blocks having held allocations, and the GlobalBlock holds
\* what the three blocks held
C40_Reached ==
  /\ probe.op = "move" /\ Quiescent
  /\ minfo[1].filled /\ sink[2] # NoText
  /\ probe.first[1]["normal"].allocated > 0 /\ probe.first[2]["normal"].allocated > 0
  /\ probe.first[Main]["normal"].allocated > 0
  /\ stats[1] = ZeroStats /\ stats[2] = ZeroStats
  /\ stats[Main] = SumOfBlocks(probe.first, CONCURRENT_THREADS_COUNT)

\* ------------------------------------------------------------- the divisors of the renderers
\* the block mi_malloc_info is rendering: the GlobalBlock, then the block of each heap
RenderedBlock(t) == IF pc[t] \in {"info_main", "info_main_unit"} THEN Main
                    ELSE heap_queue[loc[t].hp]

\* mi_print_allocations: the test of (stats->normal_count.count == 0 ? 1 : ...), a read
\* of the counter in the block being rendered
InfoUnitTest(t) ==
  /\ pc[t] \in {"info_main", "info_heap"}
  /\ loc' = [loc EXCEPT ![t].cur = stats[RenderedBlock(t)]["normal_count"].count]
  /\ pc' = [pc EXCEPT ![t] = IF pc[t] = "info_main" THEN "info_main_unit" ELSE "info_heap_unit"]
  /\ UNCHANGED <<stats, snap, heap_queue, lock, wrapper, cb_last, mi_process_start, clock,
                 ops_left, hist, file, sink, result, minfo, probe>>

\* mi_print_allocations: -(stats->normal.allocated / stats->normal_count.count), the
\* counter read again as the divisor, unless the test found it zero; a zero divisor
\* traps. Then the rest of the element of the block, as InfoMain and InfoHeap write it.
InfoUnitDivide(t) ==
  /\ pc[t] \in {"info_main_unit", "info_heap_unit"}
  /\ LET b == RenderedBlock(t)
         divisor == stats[b]["normal_count"].count
         seen == [stats[b] EXCEPT !["normal_count"].count = IF loc[t].cur = 0 THEN 0 ELSE @]
         last == IF b = Main THEN Len(heap_queue) < 1 ELSE loc[t].hp + 1 > Len(heap_queue)
     IN IF loc[t].cur # 0 /\ divisor = 0
          THEN /\ pc' = [pc EXCEPT ![t] = "fpe"]
               /\ UNCHANGED <<loc, file>>
          ELSE /\ file' = [file EXCEPT ![t] =
                             @ \o (IF b = Main THEN <<Open("stats_main")>>
                                   ELSE <<OpenWith("heap", HeapAttrs(b))>>)
                               \o mi_stats_print_xml(seen)
                               \o (IF b = Main THEN <<Close("stats_main")>>
                                   ELSE <<Close("heap")>>)]
               /\ loc' = [loc EXCEPT ![t].hp = IF b = Main THEN 1 ELSE @ + 1, ![t].cur = 0]
               /\ pc' = [pc EXCEPT ![t] = IF last THEN "info_unlock" ELSE "info_heap"]
  /\ UNCHANGED <<stats, snap, heap_queue, lock, wrapper, cb_last, mi_process_start, clock,
                 ops_left, hist, sink, result, minfo, probe>>

\* markup reports while the owners of the heaps merge their blocks
NextDivide ==
  \/ \E t \in Threads, o \in InfoOptions : mi_malloc_info(t, o)
  \/ \E t \in Threads : InfoLock(t)
  \/ \E t \in Threads : InfoUnitTest(t)
  \/ \E t \in Threads : InfoUnitDivide(t)
  \/ \E t \in Threads : InfoUnlock(t)
  \/ \E t \in Threads : InfoReturn(t)
  \/ \E t \in Threads : mi_stats_merge(t)
  \/ \E t \in Threads : MergeAddStep(t)
  \/ \E t \in Threads : MergeZeroStep(t)

SpecDivide == InitMarkup /\ [][NextDivide]_vars

\* C38: no render path divides by zero: the unit of a class (allocated / count) is
\* evaluated only with a divisor that is not zero
C38_NoDivisionByZero == \A t \in Threads : pc[t] # "fpe"

====
